---------------------------- MODULE Spec2Model ----------------------------
(***************************************************************************)
(* A model of the desktop execution node of agentos (src-tauri):           *)
(*   - ProcessManager (process_manager.rs): the registry of supervised     *)
(*     child processes, their stdout/stderr drain threads and log buffers; *)
(*   - WsClient (ws_client.rs): connect / read_loop / send / disconnect;   *)
(*   - skill_executor.rs: the dispatcher of local commands;                *)
(*   - start_mcp_bridge / stop_mcp_bridge (lib.rs).                        *)
(* The specifications share the variables:                                 *)
(*   Spec      the process supervisor, small log volumes, children that    *)
(*             run until they are killed;                                  *)
(*   SpecLog   one supervised process whose log buffer is close to         *)
(*             MAX_LOG_LINES, so that eviction happens;                    *)
(*   SpecWs    the connection state machine, its read tasks dropped as     *)
(*             soon as they are aborted;                                   *)
(*   SpecConnect  the handshake alone, with the runtime's fairness;        *)
(*   SpecExec  the command dispatcher of skill_executor.rs;                *)
(*   SpecCmd   the connection with desktop.command frames and their tasks, *)
(*             a read task being aborted where it waits or in mid-poll;    *)
(*   SpecEarly the handshake with frames sent ahead of its reply;          *)
(*   SpecReconnect  a connection replaced while command tasks run;         *)
(*   SpecEvents  the read loop with frames of every event type;            *)
(*   SpecDrop  the process supervisor until it is dropped;                 *)
(*   SpecBridge  the MCP bridge started and stopped.                       *)
(***************************************************************************)
EXTENDS Integers, Sequences, FiniteSets, TLC

(***************************************************************************)
(* Bounds of the model.                                                    *)
(***************************************************************************)
\* children launched in one run of Spec
MaxSpawns == 2
\* lines the children write (all of them, to both streams) in one run of Spec
MaxLines == 1
\* lines an OS pipe buffers before the writer blocks
PipeCap == 1
\* SpecWs: transports opened (successful connect_async calls) in one run
MaxConns == 2
\* SpecWs: frames the server sends in one run, on all the transports
MaxFrames == 2
\* SpecWs: frames written on one transport before the caller stops sending
MaxOut == 3
\* SpecBridge: lines the bridge processes print in one run
MaxBridgeLines == 1
\* SpecBridge: bridge processes launched in one run
MaxBridgeStarts == 1
\* SpecLog: lines already in the log buffer in its initial state, and lines the
\* child writes after that
PreLines == 999
MaxTail == 2

(***************************************************************************)
(* Program constants.                                                      *)
(***************************************************************************)
MAX_LOG_LINES == 1000
\* start_mcp_bridge: the turns of its polling loop, and the log lines it
\* asks for in each
PollCount == 30
PollLines == 20

Names == {"mcp-bridge", "local-openclaw"}
Streams == {"stdout", "stderr"}
\* the `lines` arguments get_logs is called with (usize): small ones in Spec,
\* ones around the capacity in SpecLog
SmallLinesArgs == {0, 1, 2}
LargeLinesArgs == {0, 1, MAX_LOG_LINES - 1, MAX_LOG_LINES, MAX_LOG_LINES + 1}

VARIABLES
  processes,  \* ProcessManager.processes: name -> ProcessInfo
  os,         \* the OS processes launched so far, by child id
  pipes,      \* per child, the lines written to each pipe and not yet read
  drains,     \* per child, the state of each drain thread
  logs,       \* per child, the Arc<Mutex<Vec<String>>> log buffer
  written,    \* lines the children have written so far (numbers the lines)
  pmRet,      \* what the last ProcessManager call returned
  sink,         \* WsClient.sink: None, or Some(connection)
  connected,    \* WsClient.connected
  session_id,   \* WsClient.session_id
  read_handle,  \* WsClient.read_handle: None, or Some(read task)
  cpc,          \* where the WsClient call in progress stands
  conns,        \* the transports opened so far, each with its read task
  wsRet,        \* what the last WsClient call returned
  mcp_port,     \* skill_executor::MCP_BRIDGE_PORT
  effects,      \* what the last execute_local_command did outside the process
  exRet,        \* the last execute_local_command call and what it returned
  bpc,          \* where the start_mcp_bridge call in progress stands
  spc,          \* where the stop_mcp_bridge call in progress stands
  startRet,     \* what the last start_mcp_bridge call returned
  stopRet       \* what the last stop_mcp_bridge call returned

pmVars == <<processes, os, pipes, drains, logs, written, pmRet>>

wsVars == <<sink, connected, session_id, read_handle, cpc, conns, wsRet>>

exVars == <<mcp_port, effects, exRet>>

brVars == <<bpc, spc, startRet, stopRet>>

vars == <<processes, os, pipes, drains, logs, written, pmRet,
          sink, connected, session_id, read_handle, cpc, conns, wsRet,
          mcp_port, effects, exRet, bpc, spc, startRet, stopRet>>

Children == 1..Len(os)

Min(a, b) == IF a < b THEN a ELSE b

(***************************************************************************)
(* ProcessManager                                                          *)
(***************************************************************************)

\* (mutant) every entry shares the buffer of the first process
ProcessInfoShared(p) == [child |-> p, status |-> "Running", logs |-> 1]

\* ProcessInfo { child, status, logs }
ProcessInfo(p) == [child |-> p, status |-> "Running", logs |-> p]

\* HashMap::remove
MapRemove(m, k) == [n \in (DOMAIN m) \ {k} |-> m[n]]

\* HashMap::insert
MapInsert(m, k, v) == [n \in (DOMAIN m) \cup {k} |-> IF n = k THEN v ELSE m[n]]

\* child.kill() followed by child.wait(): the process is dead and reaped
KillAndWait(table, p) == [table EXCEPT ![p].state = "reaped"]

\* kill(name), the registry after the call
KillProcesses(name) == MapRemove(processes, name)

\* (mutant) the name is removed from the registry, its process left running
KillOsNoKill(name) == os

\* kill(name), the OS process table after the call
KillOs(name) ==
  IF name \in DOMAIN processes
    THEN KillAndWait(os, processes[name].child)
    ELSE os

\* (mutant) evicts only once the buffer is over its capacity
PushLineLate(log, entry) ==
  IF Len(log) > MAX_LOG_LINES
    THEN Append(Tail(log), entry)
    ELSE Append(log, entry)

\* the drain loop's append under the lock: evict the oldest entry when full
PushLine(log, entry) ==
  IF Len(log) >= MAX_LOG_LINES
    THEN Append(Tail(log), entry)
    ELSE Append(log, entry)

\* format!("[stdout] {}", line) / format!("[stderr] {}", line)
Tagged(stream, text) == [tag |-> stream, line |-> text]

\* (mutant) the slice starts one entry late
LogTailLate(log, lines) ==
  LET start == IF Len(log) > lines THEN Len(log) - lines + 1 ELSE 0
  IN  SubSeq(log, start + 1, Len(log))

\* get_logs: log[start..] with start = len - lines when len > lines, else 0
LogTail(log, lines) ==
  LET start == IF Len(log) > lines THEN Len(log) - lines ELSE 0
  IN  SubSeq(log, start + 1, Len(log))

NewChild(name) == [name |-> name, state |-> "alive"]

EmptyPipes == [s \in Streams |-> <<>>]

\* The log buffer is an Arc shared by the ProcessInfo and the two drain
\* threads: it is freed when the last of them is gone.
LogHeld(regs, dr, p) ==
  \/ \E n \in DOMAIN regs : regs[n].logs = p
  \/ \E s \in Streams : dr[p][s] = "running"

DropLogs(lg, regs, dr) ==
  [p \in DOMAIN lg |-> IF LogHeld(regs, dr, p) THEN lg[p] ELSE <<>>]

BothRunning == [s \in Streams |-> "running"]

\* (mutant) the launch is tried first: a failed launch returns before the
\* old process is touched
SpawnPmLaunchFirst(name, launchOk) ==
  LET regs == KillProcesses(name)
      tbl  == KillOs(name)
      p    == Len(os) + 1
  IN  /\ IF launchOk
        THEN /\ Len(os) < MaxSpawns
             /\ os' = Append(tbl, NewChild(name))
             /\ pipes' = Append(pipes, EmptyPipes)
             /\ drains' = Append(drains, BothRunning)
             /\ logs' = Append(DropLogs(logs, regs, drains), <<>>)
             /\ processes' = MapInsert(regs, name, ProcessInfo(p))
             /\ pmRet' = [op |-> "spawn", name |-> name, ok |-> TRUE, value |-> p]
        ELSE /\ pmRet' = [op |-> "spawn", name |-> name, ok |-> FALSE,
                          value |-> "launch failed"]
             /\ UNCHANGED <<os, processes, logs, pipes, drains>>
      /\ UNCHANGED written

\* what spawn_with_env(name, ..) does to the supervisor and the OS;
\* launchOk: cmd.spawn() succeeds
SpawnPm(name, launchOk) ==
  LET regs == KillProcesses(name)
      tbl  == KillOs(name)
      p    == Len(os) + 1
  IN  /\ IF launchOk
        THEN /\ Len(os) < MaxSpawns
             /\ os' = Append(tbl, NewChild(name))
             /\ pipes' = Append(pipes, EmptyPipes)
             /\ drains' = Append(drains, BothRunning)
             /\ logs' = Append(DropLogs(logs, regs, drains), <<>>)
             /\ processes' = MapInsert(regs, name, ProcessInfo(p))
             /\ pmRet' = [op |-> "spawn", name |-> name, ok |-> TRUE, value |-> p]
        ELSE /\ os' = tbl
             /\ processes' = regs
             /\ logs' = DropLogs(logs, regs, drains)
             /\ pmRet' = [op |-> "spawn", name |-> name, ok |-> FALSE,
                          value |-> "launch failed"]
             /\ UNCHANGED <<pipes, drains>>
      /\ UNCHANGED written

\* spawn_with_env(name, command, args, envs)
SpawnWithEnv(name, launchOk) ==
  /\ SpawnPm(name, launchOk)
  /\ UNCHANGED wsVars
  /\ UNCHANGED brVars
  /\ UNCHANGED exVars

\* (mutant) kill reports an unregistered name as an error
KillStrict(name) ==
  /\ processes' = KillProcesses(name)
  /\ os' = KillOs(name)
  /\ logs' = DropLogs(logs, KillProcesses(name), drains)
  /\ pmRet' = [op |-> "kill", name |-> name, ok |-> name \in DOMAIN processes,
               value |-> "unit"]
  /\ UNCHANGED <<pipes, drains, written>>
  /\ UNCHANGED wsVars
  /\ UNCHANGED brVars
  /\ UNCHANGED exVars

\* what kill(name) does to the supervisor and the OS
KillPm(name) ==
  /\ processes' = KillProcesses(name)
  /\ os' = KillOs(name)
  /\ logs' = DropLogs(logs, KillProcesses(name), drains)
  /\ pmRet' = [op |-> "kill", name |-> name, ok |-> TRUE, value |-> "unit"]
  /\ UNCHANGED <<pipes, drains, written>>

\* kill(name)
Kill(name) ==
  /\ KillPm(name)
  /\ UNCHANGED wsVars
  /\ UNCHANGED brVars
  /\ UNCHANGED exVars

\* (mutant) the answer looks at the process, not at the registry
IsRunningLive(name) ==
  /\ pmRet' = [op |-> "is_running", name |-> name, ok |-> TRUE,
               value |-> /\ name \in DOMAIN processes
                         /\ os[processes[name].child].state = "alive"]
  /\ UNCHANGED <<processes, os, pipes, drains, logs, written>>
  /\ UNCHANGED wsVars
  /\ UNCHANGED brVars
  /\ UNCHANGED exVars

\* is_running(name)
IsRunning(name) ==
  /\ pmRet' = [op |-> "is_running", name |-> name, ok |-> TRUE,
               value |-> (name \in DOMAIN processes)]
  /\ UNCHANGED <<processes, os, pipes, drains, logs, written>>
  /\ UNCHANGED wsVars
  /\ UNCHANGED brVars
  /\ UNCHANGED exVars

\* list(): name, status and pid of every entry of the registry
ListRet ==
  [n \in DOMAIN processes |->
     [status |-> processes[n].status, pid |-> <<processes[n].child>>]]

\* list()
List ==
  /\ pmRet' = [op |-> "list", ok |-> TRUE, entries |-> ListRet]
  /\ UNCHANGED <<processes, os, pipes, drains, logs, written>>
  /\ UNCHANGED wsVars
  /\ UNCHANGED brVars
  /\ UNCHANGED exVars

\* (mutant) an unregistered name yields an empty log instead of an error
GetLogsDefault(name, lines) ==
  /\ pmRet' = [op |-> "get_logs", name |-> name, ok |-> TRUE, lines |-> lines,
               value |-> IF name \in DOMAIN processes
                           THEN LogTail(logs[processes[name].logs], lines)
                           ELSE <<>>]
  /\ UNCHANGED <<processes, os, pipes, drains, logs, written>>
  /\ UNCHANGED wsVars
  /\ UNCHANGED brVars
  /\ UNCHANGED exVars

\* what get_logs(name, lines) returns
GetLogsRet(name, lines) ==
  IF name \in DOMAIN processes
    THEN [op |-> "get_logs", name |-> name, ok |-> TRUE, lines |-> lines,
          value |-> LogTail(logs[processes[name].logs], lines)]
    ELSE [op |-> "get_logs", name |-> name, ok |-> FALSE, lines |-> lines,
          value |-> "not found"]

\* get_logs(name, lines)
GetLogs(name, lines) ==
  /\ pmRet' = GetLogsRet(name, lines)
  /\ UNCHANGED <<processes, os, pipes, drains, logs, written>>
  /\ UNCHANGED wsVars
  /\ UNCHANGED brVars
  /\ UNCHANGED exVars

\* the children the registry holds
Tracked == {processes[n].child : n \in DOMAIN processes}

\* (mutant) the registry is dropped without Drop: the map and its Child
\* handles are freed, which kills nothing
DropOsLeak == os

\* Drop: `for (_, mut info) in self.processes.drain()`, kill() and wait()
\* on each child
DropOs ==
  [p \in DOMAIN os |-> IF p \in Tracked THEN KillAndWait(os, p)[p] ELSE os[p]]

\* the ProcessManager is there until it is dropped
Alive == pmRet.op # "drop"

\* impl Drop for ProcessManager; the children it waited for are recorded
\* in place of a return value
DropManager ==
  /\ Alive
  /\ os' = DropOs
  /\ processes' = <<>>
  /\ logs' = DropLogs(logs, <<>>, drains)
  /\ pmRet' = [op |-> "drop", value |-> Tracked]
  /\ UNCHANGED <<pipes, drains, written>>
  /\ UNCHANGED wsVars
  /\ UNCHANGED brVars
  /\ UNCHANGED exVars

(***************************************************************************)
(* The environment of the supervisor: the children and the drain threads.  *)
(***************************************************************************)

\* the pipe has a reader, and its write end is still held: by the child, or
\* by a process the child started, which inherits it and may outlive the
\* child
WriteEndOpen(p, s) == drains[p][s] = "running"

\* a holder of the write end writes one line to the pipe; the line's text is
\* its number among the lines written in this run
ChildWrite(p, s, utf8, limit) ==
  /\ WriteEndOpen(p, s)
  /\ written < limit
  /\ Len(pipes[p][s]) < PipeCap
  /\ written' = written + 1
  /\ pipes' = [pipes EXCEPT ![p][s] = Append(@, [text |-> written + 1, utf8 |-> utf8])]
  /\ UNCHANGED <<processes, os, drains, logs, pmRet>>
  /\ UNCHANGED wsVars
  /\ UNCHANGED brVars
  /\ UNCHANGED exVars

\* a child exits on its own; nobody has waited for it yet
ChildExit(p) ==
  /\ os[p].state = "alive"
  /\ os' = [os EXCEPT ![p].state = "exited"]
  /\ UNCHANGED <<processes, pipes, drains, logs, written, pmRet>>
  /\ UNCHANGED wsVars
  /\ UNCHANGED brVars
  /\ UNCHANGED exVars

\* one iteration of `for line in reader.lines()` of a drain thread
Drain(p, s) ==
  /\ drains[p][s] = "running"
  /\ pipes[p][s] # <<>>
  /\ LET l == Head(pipes[p][s])
     IN  logs' = IF l.utf8
                   THEN [logs EXCEPT ![p] = PushLine(@, Tagged(s, l.text))]
                   ELSE logs
  /\ pipes' = [pipes EXCEPT ![p][s] = Tail(@)]
  /\ UNCHANGED <<processes, os, drains, written, pmRet>>
  /\ UNCHANGED wsVars
  /\ UNCHANGED brVars
  /\ UNCHANGED exVars

\* reader.lines() reaches the end of the stream and the thread ends: every
\* line written has been read and the last holder of the write end has let
\* go of it, the child by closing the stream or by exiting, a process that
\* inherited the pipe likewise
DrainEof(p, s) ==
  /\ drains[p][s] = "running"
  /\ pipes[p][s] = <<>>
  /\ drains' = [drains EXCEPT ![p][s] = "done"]
  /\ logs' = DropLogs(logs, processes, drains')
  /\ UNCHANGED <<processes, os, pipes, written, pmRet>>
  /\ UNCHANGED wsVars
  /\ UNCHANGED brVars
  /\ UNCHANGED exVars

\* the pipes and their drain threads
\* U: whether the lines written are valid UTF-8; limit: lines written in a run
Pipes(U, limit) ==
  \/ \E p \in Children, s \in Streams, u \in U : ChildWrite(p, s, u, limit)
  \/ \E p \in Children, s \in Streams : Drain(p, s)
  \/ \E p \in Children, s \in Streams : DrainEof(p, s)

\* the pipes, and children that exit on their own
Environment(U, limit) ==
  \/ \E p \in Children : ChildExit(p)
  \/ Pipes(U, limit)

(***************************************************************************)
(* WsClient                                                                *)
(***************************************************************************)

\* Option<T>
None == <<>>
Some(x) == <<x>>

\* serde_json::Value, as far as the client looks into it
JNull == [t |-> "null"]
JStr(x) == [t |-> "str", v |-> x]
JNum(n) == [t |-> "num", n |-> n]
JArr(a) == [t |-> "arr", v |-> a]

\* (mutant) the fallback is taken whatever the value
AsStrOrDefault(j, default) == default

\* Value::as_str().unwrap_or(default)
AsStrOr(j, default) == IF j.t = "str" THEN j.v ELSE default

IsJStr(j) == j.t = "str"

JStrValue(j) == j.v

RECURSIVE FilterMapStr(_)
\* arr.iter().filter_map(|v| v.as_str().map(String::from)).collect()
FilterMapStr(a) ==
  IF a = <<>> THEN <<>>
  ELSE IF IsJStr(Head(a)) THEN <<JStrValue(Head(a))>> \o FilterMapStr(Tail(a))
  ELSE FilterMapStr(Tail(a))

\* (mutant) every entry of the array is kept, strings or not
SkillsOfAll(payload) ==
  IF payload.skills.t = "arr"
    THEN [i \in DOMAIN payload.skills.v |->
            IF IsJStr(payload.skills.v[i]) THEN JStrValue(payload.skills.v[i])
                                           ELSE "?"]
    ELSE <<>>

\* payload["skills"].as_array().map(filter_map as_str).unwrap_or_default()
SkillsOf(payload) ==
  IF payload.skills.t = "arr" THEN FilterMapStr(payload.skills.v) ELSE <<>>

\* payload["sessionId"].as_str().unwrap_or("")
SessionIdOf(payload) == AsStrOr(payload.sessionId, "")

\* the payloads of the `connected` frames the server sends
ConnectedPayloads ==
  { [sessionId |-> JStr("abc"), skills |-> JArr(<<JStr("x"), JNum(7)>>)],
    [sessionId |-> JNull, skills |-> JNull] }

\* the payloads of the `error` frames the server sends
ErrorPayloads == { [message |-> JStr("denied")], [message |-> JNull] }

\* the text frames the server sends
Frames ==
  [type : {"connected"}, payload : ConnectedPayloads]
    \cup [type : {"error"}, payload : ErrorPayloads]
    \cup [type : {"ping", "chat.chunk", "skill.config.response"}, payload : {JNull}]

\* the frames the server sends in SpecWs
WsFrames == {f \in Frames : f.type # "skill.config.response"}

\* how the server side ends a transport: a close frame, a read error, or the
\* end of the stream
Ends == {"close", "error", "end"}

SendKinds ==
  {"chat.send", "chat.stop", "skill.list.request", "skill.toggle",
   "skill.install", "skill.uninstall", "skill.library.request"}

\* the send calls made in SpecCmd
WsSendKinds == {"chat.send"}

\* connect()'s own call of send_desktop_register, told from a call of that
\* function through the client
ConnectRegister == "connect.register"

\* the calls that write one frame: the send calls and send_desktop_register
SendCalls == SendKinds \cup {"desktop.register"}

\* the type of the frame a call in progress writes
FrameType(what) == IF what = ConnectRegister THEN "desktop.register" ELSE what

Idle == [pc |-> "idle", what |-> ""]

\* connect_async succeeded: the transport, split, with its read task spawned
\* (mutant) the transport is stored but no read loop is spawned on it
NewConnNoTask ==
  [ state  |-> "open", inbox |-> <<>>, nsent |-> 0, task |-> "finished",
    tx |-> "pending", rx |-> None, lock |-> "free", out |-> <<>>,
    events |-> <<>>, cmds |-> <<>>, results |-> <<>>,
    cancel |-> FALSE, queued |-> <<>> ]

\* the connection connect() has after line 98: the transport is open, the
\* oneshot slot is armed and the read loop runs; nothing is written yet
NewConn ==
  [ state  |-> "open",     \* open | closing (close frame sent by the server,
                           \* not read yet) | orphan (given up by the client
                           \* unclosed, held by command tasks) | closed
    inbox  |-> <<>>,       \* what the server sent and the read loop has not read
    nsent  |-> 0,          \* frames the server has sent
    task   |-> "running",  \* running | pong (writing a pong) | held (aborted
                           \* where it waits in the write of a pong, not
                           \* dropped yet) | finished | aborted
    tx     |-> "pending",  \* connect_tx: pending = Some(sender), taken = None
    rx     |-> None,       \* what was sent through the oneshot channel
    lock   |-> "free",     \* the sink mutex: free | client | pong | cmd
    out    |-> <<>>,       \* the frame types written to the transport
    events |-> <<>>,       \* what the read loop sent on the IPC channel
    cmds   |-> <<>>,       \* the command tasks the read loop spawned
    results |-> <<>>,      \* the payloads of the desktop.result frames written
    cancel |-> FALSE,      \* abort() was called on the read task and the task
                           \* has not reached an await that is pending yet
    queued |-> <<>> ]      \* frames handed to the sink and not flushed: the
                           \* pong of a read task dropped in its write

Conns == 1..Len(conns)

\* a write on the transport succeeds until the transport is closed
Writable(c) == conns[c].state \in {"open", "closing", "orphan"}

\* the holders of the Arc around the oneshot sender: connect()'s `tx` for as
\* long as connect runs, and the read loop's `tx_clone` while the task lives
SenderHolders(c) ==
  (IF cpc.pc # "idle" THEN {"connect"} ELSE {})
    \cup (IF conns[c].task \in {"running", "pong", "held"}
            THEN {"read_loop"} ELSE {})

\* what timeout(15s, rx) finds when it polls rx
RxState(c) ==
  IF conns[c].rx # None THEN "ready"
  ELSE IF conns[c].tx = "pending" /\ SenderHolders(c) = {} THEN "dropped"
  ELSE "pending"

\* the sink of a task that ended is dropped; the last handle on a transport
\* the client gave up closes it, and what was queued in it is lost.  The
\* read loop holds a handle (sink_clone) as the command tasks do
Release(conn) ==
  IF /\ conn.state = "orphan"
     /\ conn.task \notin {"running", "pong", "held"}
     /\ \A i \in DOMAIN conn.cmds : conn.cmds[i].state = "done"
    THEN [conn EXCEPT !.state = "closed", !.queued = <<>>]
    ELSE conn

\* the read task is dropped at an await that is pending: the frames it has
\* not read go with it, the lock it holds is released, and the pong it was
\* writing stays in the sink, to go out with the next write
Dropped(conn) ==
  [conn EXCEPT !.task = "aborted",
               !.cancel = FALSE,
               !.inbox = <<>>,
               !.lock = IF conn.task \in {"pong", "held"} THEN "free" ELSE @,
               !.queued = IF conn.task \in {"pong", "held"} /\ conn.state # "closed"
                            THEN Append(@, "pong") ELSE @]

\* a read task that is cancelled with nothing to read, or where it waits
\* in read.next(), is not seen again
Settle(conn) ==
  IF conn.task = "running" /\ conn.inbox = <<>> THEN Dropped(conn) ELSE conn

\* a read task that is cancelled where it waits is not polled again
Held(conn) ==
  IF conn.task = "pong"
    THEN [conn EXCEPT !.task = "held", !.cancel = TRUE, !.inbox = <<>>]
    ELSE Dropped(conn)

\* what abort() does to the read task before disconnect() goes on to
\* try_lock().  The task waits at an await and the runtime drops it at once
\* ("dropped"), or only later ("held": a task that waits in the write of a
\* pong keeps the lock until then); or it is in the middle of a poll on
\* another worker thread and goes on with the frames it has received until
\* it has to wait ("midpoll")
AbortOutcomes == {"dropped", "held", "midpoll"}

\* (mutant) the handle is dropped without abort(): the task is detached
AbortTaskDetach(cs, how) == cs

\* handle.abort() on read_handle.take(): a request, not a join
AbortTask(cs, how) ==
  IF read_handle = None THEN cs
  ELSE LET c == read_handle[1]
       IN  IF cs[c].task \notin {"running", "pong"} THEN cs
           ELSE IF how = "dropped" THEN [cs EXCEPT ![c] = Dropped(@)]
           ELSE IF how = "held"
             THEN [cs EXCEPT ![c] = Held(@)]
           ELSE [cs EXCEPT ![c] = Settle([@ EXCEPT !.cancel = TRUE])]

\* a read loop that returned is no longer there to be cancelled
Returned(conn) ==
  IF conn.task = "finished" THEN [conn EXCEPT !.cancel = FALSE] ELSE conn

\* (mutant) the close frame is written whoever holds the lock
CloseSinkAlways(cs) ==
  IF sink = None THEN cs
  ELSE [cs EXCEPT ![sink[1]].lock = "client"]

\* sink.take() and sink.try_lock(): with the lock, close() is called on a
\* transport that can still be written and disconnect waits in it holding
\* the lock; without it the client's handle on the sink is dropped. The
\* read task and every command task hold a handle of their own (sink_clone,
\* sink_for_result): where close() was skipped, the write half stays open
\* without the client ("orphan") until the last of these tasks has ended
CloseSink(cs) ==
  IF sink = None THEN cs
  ELSE LET c == sink[1]
       IN  IF cs[c].lock = "free"
             THEN IF cs[c].state = "closed" THEN cs
                  ELSE [cs EXCEPT ![c].lock = "client"]
             ELSE [cs EXCEPT ![c].state = IF @ = "closed" THEN @ ELSE "orphan"]

\* disconnect() up to close(): the connections when the call waits there or
\* goes on
DisconnectConns(how) == CloseSink(AbortTask(conns, how))

\* of a transport the client has let go only the tasks, the state, what the
\* close wrote and the command tasks still running remain observable; what
\* was sent through the oneshot channel, whose receiver went when connect()
\* stopped waiting, and the record of the earlier frames go with it.
\* disconnect() does not touch connect_tx: a sender that was not taken stays
\* in its slot, and the read loop, if it still runs, takes it there
Forget(conn, wrote) ==
  Release([conn EXCEPT !.out = wrote,
                       !.rx = None,
                       !.events = <<>>,
                       !.results = <<>>,
                       !.inbox = IF conn.task \in {"running", "pong"}
                                   THEN @ ELSE <<>>,
                       !.queued = IF conn.state = "closed" THEN <<>> ELSE @,
                       !.cmds = SelectSeq(@, LAMBDA t : t.state # "done")])

\* where the caller of disconnect() goes on: disconnect() returns, connect()
\* goes on to connect_async, or a failure arm of connect returns its error
Continue(kind, what) ==
  CASE kind = "failing" ->
         /\ cpc' = Idle
         /\ wsRet' = [op |-> "connect", ok |-> FALSE, err |-> what]
    [] what = "connect" ->
         /\ cpc' = [pc |-> "opening", what |-> ""]
         /\ UNCHANGED wsRet
    [] OTHER ->
         /\ cpc' = Idle
         /\ wsRet' = [op |-> "disconnect", ok |-> TRUE]

\* disconnect(), lines 540-545: the handle and the sink are taken; the call
\* is suspended in close() when try_lock() gave the lock, and otherwise it
\* runs to its end
DisconnectStart(cs, kind, what) ==
  LET waits == sink # None /\ cs[sink[1]].lock = "client"
  IN  /\ sink' = None
      /\ read_handle' = None
      /\ IF waits
           THEN /\ conns' = cs
                /\ cpc' = [pc |-> kind, what |-> what]
                /\ UNCHANGED <<connected, session_id, wsRet>>
           ELSE /\ conns' = IF sink = None THEN cs
                            ELSE [cs EXCEPT ![sink[1]] = Forget(@, <<>>)]
                /\ connected' = FALSE
                /\ session_id' = None
                /\ Continue(kind, what)

\* the transport disconnect() is closing
ClosingConn == CHOOSE c \in Conns : conns[c].lock = "client"

\* disconnect(), lines 545-549: close() returns, having flushed what was
\* queued and written the close frame if the transport took it; the fields
\* are cleared and the caller goes on
DisconnectClose ==
  /\ cpc.pc \in {"closing", "failing"}
  /\ LET c == ClosingConn
         wrote == IF Writable(c) THEN Append(conns[c].queued, "close") ELSE <<>>
     IN  conns' = [conns EXCEPT ![c] =
                     Forget([@ EXCEPT !.lock = "free", !.state = "closed"], wrote)]
  /\ connected' = FALSE
  /\ session_id' = None
  /\ Continue(cpc.pc, cpc.what)
  /\ UNCHANGED <<sink, read_handle>>
  /\ UNCHANGED pmVars
  /\ UNCHANGED brVars
  /\ UNCHANGED exVars

\* disconnect()
Disconnect(how) ==
  /\ cpc.pc = "idle"
  /\ DisconnectStart(DisconnectConns(how), "closing", "disconnect")
  /\ UNCHANGED pmVars
  /\ UNCHANGED brVars
  /\ UNCHANGED exVars

\* is_connected()
IsConnected ==
  /\ cpc.pc = "idle"
  /\ wsRet' = [op |-> "is_connected", ok |-> TRUE, value |-> connected]
  /\ UNCHANGED <<sink, connected, session_id, read_handle, cpc, conns>>
  /\ UNCHANGED pmVars
  /\ UNCHANGED brVars
  /\ UNCHANGED exVars

\* connect(), lines 60-63: disconnect, then connect_async is awaited
ConnectBegin(how) ==
  /\ cpc.pc = "idle"
  /\ DisconnectStart(DisconnectConns(how), "closing", "connect")
  /\ UNCHANGED pmVars
  /\ UNCHANGED brVars
  /\ UNCHANGED exVars

\* connect(), lines 63-98: connect_async returns; on success the sink is
\* stored and the read loop spawned, on failure the error is returned
ConnectOpen(ok) ==
  /\ cpc.pc = "opening"
  /\ IF ok
       THEN /\ Len(conns) < MaxConns
            /\ conns' = Append(conns, NewConn)
            /\ sink' = Some(Len(conns) + 1)
            /\ read_handle' = Some(Len(conns) + 1)
            /\ cpc' = [pc |-> "lock", what |-> "connect"]
            /\ UNCHANGED wsRet
       ELSE /\ cpc' = Idle
            /\ wsRet' = [op |-> "connect", ok |-> FALSE, err |-> "transport"]
            /\ UNCHANGED <<sink, read_handle, conns>>
  /\ UNCHANGED <<connected, session_id>>
  /\ UNCHANGED pmVars
  /\ UNCHANGED brVars
  /\ UNCHANGED exVars

\* sink.lock().await of connect, send_desktop_register and the send calls
ClientLock ==
  /\ cpc.pc = "lock"
  /\ conns[sink[1]].lock = "free"
  /\ conns' = [conns EXCEPT ![sink[1]].lock = "client"]
  /\ cpc' = [cpc EXCEPT !.pc = "write"]
  /\ UNCHANGED <<sink, connected, session_id, read_handle, wsRet>>
  /\ UNCHANGED pmVars
  /\ UNCHANGED brVars
  /\ UNCHANGED exVars

\* ConnectResult { session_id, device_id, skills }
ConnectResult(c) ==
  LET payload == conns[c].rx[1].value
  IN  [session_id |-> SessionIdOf(payload), device_id |-> "uuid",
       skills |-> SkillsOf(payload)]

\* s.send(Message::Text(..)).await under the lock, and what the caller does
\* with its result: connect returns a failed write with `?` and only logs
\* the failure of its desktop.register; the send calls and
\* send_desktop_register return it
ClientWrite ==
  /\ cpc.pc = "write"
  /\ LET c == sink[1]
         ok == Writable(c)
     IN  /\ conns' = [conns EXCEPT ![c].lock = "free",
                                   ![c].out = IF ok THEN Append(@, FrameType(cpc.what))
                                                   ELSE @]
         /\ CASE cpc.what = "connect" ->
                   IF ok
                     THEN cpc' = [pc |-> "wait", what |-> ""] /\ UNCHANGED wsRet
                     ELSE /\ cpc' = Idle
                          /\ wsRet' = [op |-> "connect", ok |-> FALSE, err |-> "send"]
              [] cpc.what = ConnectRegister ->
                   /\ cpc' = Idle
                   /\ wsRet' = [op |-> "connect", ok |-> TRUE,
                                value |-> ConnectResult(c)]
              [] OTHER ->
                   /\ cpc' = Idle
                   /\ wsRet' = [op |-> cpc.what, ok |-> ok,
                                err |-> IF ok THEN "" ELSE "send"]
  /\ UNCHANGED <<sink, connected, session_id, read_handle>>
  /\ UNCHANGED pmVars
  /\ UNCHANGED brVars
  /\ UNCHANGED exVars

\* (mutant) the failure arms return without disconnecting
FailedConns(how) == conns

\* the connections when a failure arm of connect has called disconnect()
ArmDisconnect(how) == DisconnectConns(how)

\* connect(), lines 113-142: rx resolved before the deadline; the failure
\* arms call disconnect() before they return
ConnectResolve(how) ==
  /\ cpc.pc = "wait"
  /\ RxState(sink[1]) # "pending"
  /\ LET c == sink[1]
     IN  IF RxState(c) = "ready" /\ conns[c].rx[1].ok
           THEN /\ connected' = TRUE
                /\ session_id' = Some(SessionIdOf(conns[c].rx[1].value))
                /\ cpc' = [pc |-> "lock", what |-> ConnectRegister]
                /\ UNCHANGED <<sink, read_handle, conns, wsRet>>
           ELSE DisconnectStart(ArmDisconnect(how), "failing",
                                IF RxState(c) = "ready"
                                  THEN conns[c].rx[1].value
                                  ELSE "server closed connection")
  /\ UNCHANGED pmVars
  /\ UNCHANGED brVars
  /\ UNCHANGED exVars

\* connect(), lines 143-147: the 15 s deadline elapses with rx unresolved
ConnectTimeout(how) ==
  /\ cpc.pc = "wait"
  /\ RxState(sink[1]) = "pending"
  /\ DisconnectStart(ArmDisconnect(how), "failing", "timeout")
  /\ UNCHANGED pmVars
  /\ UNCHANGED brVars
  /\ UNCHANGED exVars

\* send_chat, stop_chat, send_skill_*, send_desktop_register:
\* `self.sink.as_ref().ok_or(..)?`, then the frame is written under the lock
SendBegin(kind) ==
  /\ cpc.pc = "idle"
  /\ IF sink = None
       THEN /\ wsRet' = [op |-> kind, ok |-> FALSE, err |-> "Not connected"]
            /\ UNCHANGED cpc
       ELSE /\ Len(conns[sink[1]].out) < MaxOut
            /\ cpc' = [pc |-> "lock", what |-> kind]
            /\ UNCHANGED wsRet
  /\ UNCHANGED <<sink, connected, session_id, read_handle, conns>>
  /\ UNCHANGED pmVars
  /\ UNCHANGED brVars
  /\ UNCHANGED exVars

(***************************************************************************)
(* skill_executor                                                          *)
(***************************************************************************)

\* the function names a desktop.command may carry: the five of the
\* whitelist, and one that is not on it
FunctionNames ==
  {"run_shell", "read_file", "write_file", "list_directory", "call_mcp_tool",
   "delete_file"}

\* an argument is absent (indexing yields Null) or a string
ArgValues == {JNull, JStr("a")}

\* the bag whose arguments are all present and all of the wrong shape
NumberBag ==
  [command |-> JNum(5), path |-> JNum(5), content |-> JNum(5),
   server |-> JNum(5), tool |-> JNum(5), timeout |-> JStr("a"),
   arguments |-> JNull]

\* the argument bags: args[key] for the keys the handlers read
ArgBags ==
  [command : ArgValues, path : ArgValues, content : ArgValues,
   server : ArgValues, tool : ArgValues, timeout : {JNull, JNum(5), JNum(-1)},
   arguments : {JNull}]
    \cup {NumberBag}

\* the ports set_mcp_bridge_port is called with; 0 is "not running"
Ports == {0, 8080}

\* how the world answers what a handler asks of it
Outcomes(function_name) ==
  CASE function_name = "run_shell" -> {"ok", "spawn_failed", "timed_out", "wait_failed"}
    [] function_name = "list_directory" -> {"ok", "not_dir", "io_error"}
    [] function_name = "call_mcp_tool" -> {"ok", "request_failed", "body_failed"}
    [] OTHER -> {"ok", "io_error"}

\* Result<Value, String>: Err(format!(msg, arg)); arg is Null when the
\* message has no placeholder
ExErr(msg, arg) == [ok |-> FALSE, v |-> [msg |-> msg, arg |-> arg]]

ExOk(data) == [ok |-> TRUE, v |-> data]

\* what a call returns and what it did: ret and the effects fx
Did(ret, fx) == [ret |-> ret, fx |-> fx]

\* args["timeout"].as_u64().unwrap_or(30): a number that is not a u64 (of
\* the integers of the model, a negative one) counts as absent
TimeoutSecs(args) ==
  IF args.timeout.t = "num" /\ args.timeout.n >= 0
    THEN args.timeout.n
    ELSE 30

\* run_shell(args)
RunShell(args, o) ==
  IF args.command.t # "str"
    THEN Did(ExErr("Missing 'command' argument", JNull), <<>>)
    ELSE LET sh == <<[kind |-> "shell", command |-> args.command.v,
                      started |-> o # "spawn_failed"]>>
         IN  CASE o = "spawn_failed" ->
                    Did(ExErr("Failed to spawn command: {}", JStr("os error")), sh)
               [] o = "timed_out" ->
                    Did(ExErr("Command timed out after {}s", JNum(TimeoutSecs(args))), sh)
               [] o = "wait_failed" ->
                    Did(ExErr("Command failed: {}", JStr("os error")), sh)
               [] OTHER ->
                    Did(ExOk([exitCode |-> 0, stdout |-> "out", stderr |-> ""]), sh)

\* read_file(args)
ReadFile(args, o) ==
  IF args.path.t # "str"
    THEN Did(ExErr("Missing 'path' argument", JNull), <<>>)
    ELSE LET fs == <<[kind |-> "fs", op |-> "read_to_string", path |-> args.path.v]>>
         IN  IF o = "io_error"
               THEN Did(ExErr("Failed to read file: {}", JStr("os error")), fs)
               ELSE Did(ExOk([path |-> args.path.v, content |-> "text", size |-> 4]), fs)

\* (mutant) the file is written before `content` is looked at
WriteFileEager(args, o) ==
  IF args.path.t # "str"
    THEN Did(ExErr("Missing 'path' argument", JNull), <<>>)
    ELSE LET fs == <<[kind |-> "fs", op |-> "write", path |-> args.path.v]>>
         IN  IF args.content.t # "str"
               THEN Did(ExErr("Missing 'content' argument", JNull), fs)
               ELSE Did(ExOk([path |-> args.path.v, bytesWritten |-> 1]), fs)

\* write_file(args)
WriteFile(args, o) ==
  IF args.path.t # "str"
    THEN Did(ExErr("Missing 'path' argument", JNull), <<>>)
  ELSE IF args.content.t # "str"
    THEN Did(ExErr("Missing 'content' argument", JNull), <<>>)
  ELSE LET fs == <<[kind |-> "fs", op |-> "write", path |-> args.path.v]>>
       IN  IF o = "io_error"
             THEN Did(ExErr("Failed to write file: {}", JStr("os error")), fs)
             ELSE Did(ExOk([path |-> args.path.v, bytesWritten |-> 1]), fs)

\* list_directory(args)
ListDirectory(args, o) ==
  IF args.path.t # "str"
    THEN Did(ExErr("Missing 'path' argument", JNull), <<>>)
    ELSE LET isdir == <<[kind |-> "fs", op |-> "is_dir", path |-> args.path.v]>>
             rddir == <<[kind |-> "fs", op |-> "read_dir", path |-> args.path.v]>>
         IN  CASE o = "not_dir" ->
                    Did(ExErr("Not a directory: {}", args.path), isdir)
               [] o = "io_error" ->
                    Did(ExErr("Failed to read directory: {}", JStr("os error")),
                        isdir \o rddir)
               [] OTHER ->
                    Did(ExOk([path |-> args.path.v, entries |-> <<>>, count |-> 0]),
                        isdir \o rddir)

\* (mutant) the arguments are validated before the port is looked at
CallMcpToolArgsFirst(args, port, o) ==
  IF args.server.t # "str"
    THEN Did(ExErr("Missing 'server' argument", JNull), <<>>)
  ELSE IF args.tool.t # "str"
    THEN Did(ExErr("Missing 'tool' argument", JNull), <<>>)
  ELSE Did(ExErr("MCP bridge is not running", JNull), <<[kind |-> "port_read"]>>)

\* call_mcp_tool(args), port being what get_mcp_bridge_port() returns
CallMcpTool(args, port, o) ==
  LET rd == <<[kind |-> "port_read"]>>
  IN  IF port = 0
        THEN Did(ExErr("MCP bridge is not running", JNull), rd)
      ELSE IF args.server.t # "str"
        THEN Did(ExErr("Missing 'server' argument", JNull), rd)
      ELSE IF args.tool.t # "str"
        THEN Did(ExErr("Missing 'tool' argument", JNull), rd)
      ELSE LET http == <<[kind |-> "http", port |-> port, server |-> args.server.v,
                          tool |-> args.tool.v, arguments |-> args.arguments]>>
           IN  CASE o = "request_failed" ->
                      Did(ExErr("MCP bridge request failed: {}", JStr("os error")),
                          rd \o http)
                 [] o = "body_failed" ->
                      Did(ExErr("Failed to read MCP response: {}", JStr("os error")),
                          rd \o http)
                 [] OTHER -> Did(ExOk([result |-> "text"]), rd \o http)

\* a handler was entered
Entered(function_name) == <<[kind |-> "handler", name |-> function_name]>>

\* (mutant) a name off the whitelist is tried as a shell command
ExecuteAnything(function_name, args, port, o) ==
  Did(ExOk([exitCode |-> 0, stdout |-> "out", stderr |-> ""]),
      <<[kind |-> "shell", command |-> function_name, started |-> TRUE]>>)

\* execute_local_command(function_name, args)
ExecuteLocalCommand(function_name, args, port, o) ==
  LET via(d) == Did(d.ret, Entered(function_name) \o d.fx)
  IN  CASE function_name = "run_shell" -> via(RunShell(args, o))
        [] function_name = "read_file" -> via(ReadFile(args, o))
        [] function_name = "write_file" -> via(WriteFile(args, o))
        [] function_name = "list_directory" -> via(ListDirectory(args, o))
        [] function_name = "call_mcp_tool" -> via(CallMcpTool(args, port, o))
        [] OTHER -> Did(ExErr("Unknown function: {}", JStr(function_name)), <<>>)

\* the call waits before it returns: run_shell for the child it spawned,
\* call_mcp_tool for the answer to the request it sent
Awaits(function_name, args, port, o) ==
  CASE function_name = "run_shell" -> args.command.t = "str" /\ o # "spawn_failed"
    [] function_name = "call_mcp_tool" ->
         port # 0 /\ args.server.t = "str" /\ args.tool.t = "str"
    [] OTHER -> FALSE

\* set_mcp_bridge_port(port)
SetMcpBridgePort(port) ==
  /\ mcp_port' = port
  /\ UNCHANGED <<effects, exRet>>
  /\ UNCHANGED pmVars
  /\ UNCHANGED brVars
  /\ UNCHANGED wsVars

\* a call of execute_local_command is waiting for its child or its answer
Pending == exRet.function_name # "" /\ exRet.ret = JNull

\* a call of execute_local_command, up to the point where it waits or, if it
\* does not wait, to its return; what it did is done by then
Execute(function_name, args, o) ==
  LET d == ExecuteLocalCommand(function_name, args, mcp_port, o)
  IN  /\ ~Pending
      /\ exRet' = [function_name |-> function_name, args |-> args,
                   port |-> mcp_port,
                   ret |-> IF Awaits(function_name, args, mcp_port, o)
                             THEN JNull ELSE d.ret]
      /\ effects' = d.fx
      /\ UNCHANGED mcp_port
      /\ UNCHANGED pmVars
      /\ UNCHANGED brVars
      /\ UNCHANGED wsVars

\* the call that waited returns: the child ended or the deadline passed, the
\* answer came or the request failed
ExecuteReturn(o) ==
  /\ Pending
  /\ Awaits(exRet.function_name, exRet.args, exRet.port, o)
  /\ exRet' = [exRet EXCEPT
                 !.ret = ExecuteLocalCommand(exRet.function_name, exRet.args,
                                             exRet.port, o).ret]
  /\ UNCHANGED <<mcp_port, effects>>
  /\ UNCHANGED pmVars
  /\ UNCHANGED brVars
  /\ UNCHANGED wsVars

(***************************************************************************)
(* start_mcp_bridge and stop_mcp_bridge                                    *)
(*                                                                         *)
(* A text is a sequence of pieces; no piece used here begins another, so   *)
(* one text is a prefix of another exactly when its pieces are.  The       *)
(* digits of a number are pieces of their own.                             *)
(***************************************************************************)

Digits == <<"0", "1", "2", "3", "4", "5", "6", "7", "8", "9">>

IsDigit(ch) == \E i \in DOMAIN Digits : Digits[i] = ch

DigitValue(ch) == (CHOOSE i \in DOMAIN Digits : Digits[i] = ch) - 1

\* (mutant) the line is taken as the child printed it
RenderBare(entry) == entry.line

\* the String a log entry is: format!("[stdout] {}", line), or "[stderr] {}"
Render(entry) ==
  <<IF entry.tag = "stdout" THEN "[stdout] " ELSE "[stderr] ">> \o entry.line

\* str::strip_prefix
StripPrefix(text, prefix) ==
  IF Len(text) >= Len(prefix) /\ SubSeq(text, 1, Len(prefix)) = prefix
    THEN Some(SubSeq(text, Len(prefix) + 1, Len(text)))
    ELSE None

\* char::is_whitespace: the characters with the Unicode property White_Space;
\* the ones TLA+ has no escape for are named by their code point
WhiteSpace ==
  {" ", "\t", "\n", "\f", "\r", "U+000B", "U+0085", "U+00A0", "U+1680",
   "U+2000", "U+2001", "U+2002", "U+2003", "U+2004", "U+2005", "U+2006",
   "U+2007", "U+2008", "U+2009", "U+200A", "U+2028", "U+2029", "U+202F",
   "U+205F", "U+3000"}

RECURSIVE TrimStart(_)
\* str::trim_start
TrimStart(text) ==
  IF text # <<>> /\ Head(text) \in WhiteSpace THEN TrimStart(Tail(text)) ELSE text

RECURSIVE TrimEnd(_)
\* str::trim_end
TrimEnd(text) ==
  IF text # <<>> /\ text[Len(text)] \in WhiteSpace
    THEN TrimEnd(SubSeq(text, 1, Len(text) - 1))
    ELSE text

\* str::trim
Trim(text) == TrimEnd(TrimStart(text))

RECURSIVE Decimal(_, _)
\* the value of a run of digits after the value acc, None beyond u16
Decimal(acc, text) ==
  IF text = <<>> THEN Some(acc)
  ELSE LET v == acc * 10 + DigitValue(Head(text))
       IN  IF v > 65535 THEN None ELSE Decimal(v, Tail(text))

\* str::parse::<u16>: one "+" may stand before the digits, and there is at
\* least one digit
ParseU16(text) ==
  LET digits == IF text # <<>> /\ Head(text) = "+" THEN Tail(text) ELSE text
  IN  IF digits = <<>> \/ \E i \in DOMAIN digits : ~IsDigit(digits[i])
        THEN None
        ELSE Decimal(0, digits)

\* what one line of the log gives the poll: the port it announces, if any
PortOfLine(text) ==
  LET p == StripPrefix(text, <<"MCP_BRIDGE_PORT=">>)
  IN  IF p = None THEN None ELSE ParseU16(Trim(p[1]))

RECURSIVE FirstPort(_)
\* `for line in &logs`: the first line that announces a port ends the scan
FirstPort(texts) ==
  IF texts = <<>> THEN 0
  ELSE IF PortOfLine(Head(texts)) # None THEN PortOfLine(Head(texts))[1]
  ELSE FirstPort(Tail(texts))

\* one poll: get_logs("mcp-bridge", 20) and the scan of what it returned
PolledPort ==
  LET r == GetLogsRet("mcp-bridge", PollLines)
  IN  IF r.ok THEN FirstPort([i \in DOMAIN r.value |-> Render(r.value[i])])
      ELSE 0

NotStarting == [pc |-> "idle", polls |-> 0]

NotStopping == [pc |-> "idle", waited |-> FALSE]

\* the ProcessManager mutex: start_mcp_bridge holds it from its first line to
\* its return, stop_mcp_bridge for its kill
PmLocked == bpc.pc # "idle"

StartErr(msg) == [op |-> "start", ok |-> FALSE, value |-> msg]

\* start_mcp_bridge, lines 1359-1408: the lock, the kill of the old bridge,
\* the script and the config looked up, the spawn.  host: what the call
\* finds on the machine.
StartBegin(host) ==
  /\ ~PmLocked
  /\ CASE host = "no script" ->
             /\ KillPm("mcp-bridge")
             /\ startRet' = StartErr("MCP bridge script not found")
             /\ UNCHANGED bpc
        [] host = "no config" ->
             /\ KillPm("mcp-bridge")
             /\ startRet' = [op |-> "start", ok |-> TRUE, value |-> <<>>]
             /\ UNCHANGED bpc
        [] host = "no node" ->
             /\ SpawnPm("mcp-bridge", FALSE)
             /\ startRet' = StartErr("Failed to start MCP bridge")
             /\ UNCHANGED bpc
        [] OTHER ->
             /\ Len(os) < MaxBridgeStarts
             /\ SpawnPm("mcp-bridge", TRUE)
             /\ bpc' = [pc |-> "poll", polls |-> 0]
             /\ UNCHANGED startRet
  /\ UNCHANGED <<spc, stopRet>>
  /\ UNCHANGED wsVars
  /\ UNCHANGED exVars

Hosts == {"no script", "no config", "no node", "ready"}

\* start_mcp_bridge, lines 1411-1439, from one await to the next: one turn
\* of the polling loop after its sleep, and what follows the loop when this
\* turn ends it.  With a port the call publishes it and sends its request
\* for the bridge's tools; when the answer is in (found: the request
\* succeeded) it returns, and it holds the ProcessManager mutex until then.
\* Without a port after the last turn it kills the bridge and fails.  What
\* get_logs returned is used up by the scan.
StartPoll(found) ==
  /\ bpc.pc \in {"poll", "discover"}
  /\ LET port == PolledPort
     IN  IF bpc.pc = "discover"
           THEN /\ startRet' = IF found
                                 THEN [op |-> "start", ok |-> TRUE, value |-> <<"tool">>]
                                 ELSE StartErr("discover")
                /\ bpc' = NotStarting
                /\ UNCHANGED pmVars
                /\ UNCHANGED mcp_port
           ELSE IF port > 0
           THEN /\ mcp_port' = port
                /\ bpc' = [bpc EXCEPT !.pc = "discover"]
                /\ UNCHANGED pmVars
                /\ UNCHANGED startRet
           ELSE IF bpc.polls + 1 >= PollCount
           THEN /\ KillPm("mcp-bridge")
                /\ startRet' = StartErr("MCP bridge failed to start (no port detected)")
                /\ bpc' = NotStarting
                /\ UNCHANGED mcp_port
           ELSE /\ bpc' = [bpc EXCEPT !.polls = @ + 1]
                /\ UNCHANGED pmVars
                /\ UNCHANGED <<mcp_port, startRet>>
  /\ UNCHANGED <<effects, exRet, spc, stopRet>>
  /\ UNCHANGED wsVars

\* stop_mcp_bridge, line 1448: the port is reset, then the lock is asked for
StopBegin ==
  /\ spc.pc = "idle"
  /\ mcp_port' = 0
  /\ spc' = [pc |-> "lock", waited |-> PmLocked]
  /\ UNCHANGED <<effects, exRet, bpc, startRet, stopRet>>
  /\ UNCHANGED pmVars
  /\ UNCHANGED wsVars

\* stop_mcp_bridge, lines 1449-1451: under the lock the bridge is killed;
\* whether the call had to wait for the lock is recorded with its return
StopFinish ==
  /\ spc.pc = "lock"
  /\ ~PmLocked
  /\ KillPm("mcp-bridge")
  /\ spc' = NotStopping
  /\ stopRet' = [op |-> "stop", ok |-> TRUE, waited |-> spc.waited]
  /\ UNCHANGED <<bpc, startRet>>
  /\ UNCHANGED wsVars
  /\ UNCHANGED exVars

\* what the bridge prints: the line that announces its port, the number
\* signed and with white space around it, and a line about something else
BridgeTexts ==
  { <<"MCP_BRIDGE_PORT=", "\t", "+", "8", "0", "8", "0", " ", "\r">>,
    <<"bridge starting">> }

\* the bridge, or a process it started, writes one line to one of its pipes
BridgeWrite(p, s, text) ==
  /\ WriteEndOpen(p, s)
  /\ os[p].name = "mcp-bridge"
  /\ written < MaxBridgeLines
  /\ Len(pipes[p][s]) < PipeCap
  /\ written' = written + 1
  /\ pipes' = [pipes EXCEPT ![p][s] = Append(@, [text |-> text, utf8 |-> TRUE])]
  /\ UNCHANGED <<processes, os, drains, logs, pmRet>>
  /\ UNCHANGED wsVars
  /\ UNCHANGED brVars
  /\ UNCHANGED exVars

(***************************************************************************)
(* The read loop, one per transport.                                       *)
(***************************************************************************)

\* (mutant) the outcome is stored whether or not the sender was taken
ResolveAgain(conn, v) == [conn EXCEPT !.tx = "taken", !.rx = Some(v)]

\* tx.send(v) on the sender taken out of connect_tx, if it is still there
Resolve(conn, v) ==
  IF conn.tx = "pending"
    THEN [conn EXCEPT !.tx = "taken", !.rx = Some(v)]
    ELSE conn

\* (mutant) the event is put in front of the ones already sent
EmitFirst(conn, t, p) ==
  [conn EXCEPT !.events = <<[type |-> t, payload |-> p]>> \o @]

\* channel.send(json!({"type": t, "payload": p}))
Emit(conn, t, p) == [conn EXCEPT !.events = Append(@, [type |-> t, payload |-> p])]

PassThrough ==
  {"chat.chunk", "chat.done", "skill.start", "skill.result", "push.message",
   "skill.list.response", "skill.library.response"}

\* tokio::spawn of the command task, with what it captures
SpawnCommand(payload) ==
  [ command_id    |-> AsStrOr(payload.commandId, ""),
    function_name |-> AsStrOr(payload.command, ""),
    args          |-> payload.args,
    state         |-> "exec",   \* exec (spawned) | waiting (inside
                                \* execute_local_command) | writing | done
    port          |-> 0,        \* the bridge port the call read
    result_msg    |-> None ]    \* the payload of the desktop.result it built

\* (mutant) the command is awaited in the read loop, which reads nothing
\* until it has ended
DispatchInline(conn, payload) ==
  [conn EXCEPT !.cmds = Append(@, SpawnCommand(payload)), !.task = "busy"]

\* a desktop.command: the task is spawned and the loop goes on
Dispatch(conn, payload) ==
  [conn EXCEPT !.cmds = Append(@, SpawnCommand(payload))]

\* (mutant) the pong is written whoever holds the lock
PingForced(conn) == [conn EXCEPT !.lock = "pong", !.task = "pong"]

\* a ping: sink.try_lock(), and the pong is written only if that gave the
\* lock
Ping(conn) ==
  IF conn.lock = "free"
    THEN [conn EXCEPT !.lock = "pong", !.task = "pong"]
    ELSE conn

\* one text frame handled by the match on msg_type
Handle(conn, f) ==
  CASE f.type = "connected" -> Resolve(conn, [ok |-> TRUE, value |-> f.payload])
    [] f.type = "error" ->
         IF conn.tx = "pending"
           THEN Resolve(conn, [ok |-> FALSE,
                               value |-> AsStrOr(f.payload.message, "Unknown error")])
           ELSE Emit(conn, "error", f.payload)
    [] f.type \in PassThrough -> Emit(conn, f.type, f.payload)
    [] f.type = "desktop.command" -> Dispatch(conn, f.payload)
    [] f.type = "ping" -> Ping(conn)
    [] OTHER -> conn

\* the reason the `disconnected` event carries; a read error is formatted
\* with its text
DisconnectReason(how) ==
  CASE how = "close" -> <<"server_close">>
    [] how = "error" -> <<"error: ", "e">>
    [] OTHER         -> <<"stream_ended">>

\* (mutant) the read loop returns without telling the event sink
FinishSilent(conn, how) ==
  [conn EXCEPT !.task = "finished", !.state = "closed"]

\* the read loop ends: a close frame, a read error or the end of the stream
Finish(conn, how) ==
  [Emit(conn, "disconnected", [reason |-> DisconnectReason(how)])
     EXCEPT !.task = "finished", !.state = "closed"]

\* one turn of `while let Some(msg) = read.next().await`
ReadNext(c) ==
  /\ conns[c].task = "running"
  /\ conns[c].inbox # <<>>
  /\ LET m == Head(conns[c].inbox)
         rest == [conns[c] EXCEPT !.inbox = Tail(@)]
     IN  conns' = [conns EXCEPT ![c] =
                     Release(Returned(IF m.kind = "frame"
                                        THEN Handle(rest, m.frame)
                                        ELSE Finish(rest, m.kind)))]
  /\ UNCHANGED <<sink, connected, session_id, read_handle, cpc, wsRet>>
  /\ UNCHANGED pmVars
  /\ UNCHANGED brVars
  /\ UNCHANGED exVars

\* the pong is written under the lock try_lock() gave
PongWrite(c) ==
  /\ c \in Conns
  /\ conns[c].task = "pong"
  /\ conns' = [conns EXCEPT ![c] =
                 [@ EXCEPT
                    !.out = IF Writable(c) THEN Append(@, "pong") ELSE @,
                    !.lock = "free",
                    !.task = "running"]]
  /\ UNCHANGED <<sink, connected, session_id, read_handle, cpc, wsRet>>
  /\ UNCHANGED pmVars
  /\ UNCHANGED brVars
  /\ UNCHANGED exVars

\* the runtime drops a read task that was aborted in the middle of a poll,
\* at the await it reaches
TaskDrop(c) ==
  /\ c \in Conns
  /\ conns[c].cancel
  /\ conns[c].task \in {"running", "pong", "held"}
  /\ conns' = [conns EXCEPT ![c] =
                 IF @.lock = "client" THEN Dropped(@)
                                      ELSE Forget(Dropped(@), @.out)]
  /\ UNCHANGED <<sink, connected, session_id, read_handle, cpc, wsRet>>
  /\ UNCHANGED pmVars
  /\ UNCHANGED brVars
  /\ UNCHANGED exVars

(***************************************************************************)
(* The command tasks, one per desktop.command frame.                       *)
(***************************************************************************)

CommandTasks(c) == DOMAIN conns[c].cmds

\* (mutant) the task starts over instead of ending
EndedRetry(t) == [t EXCEPT !.state = "exec", !.port = 0, !.result_msg = None]

\* a task that has ended: its captures are dropped, its id is remembered
Ended(t) ==
  [t EXCEPT !.function_name = "", !.args = JNull, !.state = "done",
            !.port = 0, !.result_msg = None]

\* (mutant) every result is reported as a success
ResultMsgSuccess(command_id, result) ==
  [commandId |-> command_id, success |-> TRUE, body |-> result.v]

\* the payload of the desktop.result frame: data on Ok, error on Err
ResultMsg(command_id, result) ==
  [commandId |-> command_id, success |-> result.ok, body |-> result.v]

\* (mutant) the task looks the sink up in the client when it writes
ResultSinkCurrent(c) == IF sink = None THEN c ELSE sink[1]

\* sink_for_result: the clone of the sink the read loop was started with,
\* that is the transport the command arrived on
ResultSink(c) == c

\* the task enters execute_local_command and waits in it: the child is
\* spawned or the request sent, and the call has not returned
CommandStart(c, i) ==
  /\ c \in Conns
  /\ i \in CommandTasks(c)
  /\ conns[c].cmds[i].state = "exec"
  /\ LET t == conns[c].cmds[i]
     IN  /\ Awaits(t.function_name, t.args, mcp_port, "ok")
         /\ conns' = [conns EXCEPT ![c].cmds[i] =
                        [t EXCEPT !.state = "waiting", !.port = mcp_port]]
         /\ effects' = ExecuteLocalCommand(t.function_name, t.args, mcp_port, "ok").fx
  /\ UNCHANGED <<sink, connected, session_id, read_handle, cpc, wsRet>>
  /\ UNCHANGED <<mcp_port, exRet>>
  /\ UNCHANGED pmVars
  /\ UNCHANGED brVars

\* execute_local_command returns, at once for a call that does not wait; the
\* task builds the result frame and tries the sink lock once; without the
\* lock the frame is dropped
CommandRun(c, i, o) ==
  /\ c \in Conns
  /\ i \in CommandTasks(c)
  /\ conns[c].cmds[i].state \in {"exec", "waiting"}
  /\ LET t == conns[c].cmds[i]
         waited == t.state = "waiting"
         port == IF waited THEN t.port ELSE mcp_port
         d == ExecuteLocalCommand(t.function_name, t.args, port, o)
         w == ResultSink(c)
         got == conns[w].lock = "free"
         msg == ResultMsg(t.command_id, d.ret)
         task == [conns EXCEPT
                    ![c].cmds[i] =
                       IF got THEN [t EXCEPT !.state = "writing", !.port = 0,
                                             !.result_msg = Some(msg)]
                              ELSE Ended(t)]
         held == [task EXCEPT ![w].lock = IF got THEN "cmd" ELSE @]
     IN  /\ waited <=> Awaits(t.function_name, t.args, port, o)
         /\ conns' = [held EXCEPT ![c] = Release(@)]
         /\ exRet' = [function_name |-> t.function_name, args |-> t.args,
                      port |-> port, ret |-> d.ret]
         /\ effects' = IF waited THEN effects ELSE d.fx
  /\ UNCHANGED <<sink, connected, session_id, read_handle, cpc, wsRet, mcp_port>>
  /\ UNCHANGED pmVars
  /\ UNCHANGED brVars

\* s.send(result_msg) under the lock try_lock() gave; its error is ignored
CommandWrite(c, i) ==
  /\ c \in Conns
  /\ i \in CommandTasks(c)
  /\ conns[c].cmds[i].state = "writing"
  /\ LET w == ResultSink(c)
         task == [conns EXCEPT ![c].cmds[i] = Ended(@)]
         sent == [task EXCEPT
                    ![w].lock = "free",
                    ![w].queued = <<>>,
                    ![w].out = IF Writable(w)
                                 THEN Append(@ \o conns[w].queued, "desktop.result")
                                 ELSE @,
                    ![w].results = IF Writable(w)
                                     THEN Append(@, conns[c].cmds[i].result_msg[1])
                                     ELSE @]
     IN  conns' = [sent EXCEPT ![c] = Release(@)]
  /\ UNCHANGED <<sink, connected, session_id, read_handle, cpc, wsRet>>
  /\ UNCHANGED pmVars
  /\ UNCHANGED brVars
  /\ UNCHANGED exVars

\* the argument bag with a path and a shell command
PathBag ==
  [command |-> JStr("a"), path |-> JStr("a"), content |-> JNull,
   server |-> JNull, tool |-> JNull, timeout |-> JNull, arguments |-> JNull]

\* the desktop.command frames the server sends: a shell command, a call of
\* a function that does not exist, a read_file without its path
CommandFrames ==
  { [type |-> "desktop.command",
     payload |-> [commandId |-> JStr("c1"), command |-> JStr("run_shell"),
                  args |-> PathBag]],
    [type |-> "desktop.command",
     payload |-> [commandId |-> JStr("c2"), command |-> JStr("delete_file"),
                  args |-> PathBag]],
    [type |-> "desktop.command",
     payload |-> [commandId |-> JStr("c3"), command |-> JStr("read_file"),
                  args |-> NumberBag]] }

\* the frames the server sends in SpecCmd
CmdFrames ==
  CommandFrames \cup {f \in Frames : f.type \in {"ping", "chat.chunk"}}

(***************************************************************************)
(* The coordinator at the other end of a transport.                        *)
(***************************************************************************)

RECURSIVE FramesSent(_)
\* the frames the server has sent on the transports cs
FramesSent(cs) == IF cs = <<>> THEN 0 ELSE Head(cs).nsent + FramesSent(Tail(cs))

\* the server sends a text frame on a transport it has not ended
ServerSend(c, f) ==
  /\ conns[c].state = "open"
  /\ FramesSent(conns) < MaxFrames
  /\ conns' = [conns EXCEPT ![c].inbox = Append(@, [kind |-> "frame", frame |-> f]),
                            ![c].nsent = @ + 1]
  /\ UNCHANGED <<sink, connected, session_id, read_handle, cpc, wsRet>>
  /\ UNCHANGED pmVars
  /\ UNCHANGED brVars
  /\ UNCHANGED exVars

\* the server closes, or the transport fails; after a close frame the client
\* can still write until its read loop has read the frame
ServerEnd(c, how) ==
  /\ conns[c].state = "open"
  /\ conns' = [conns EXCEPT ![c].inbox = Append(@, [kind |-> how]),
                            ![c].state = IF how = "close" THEN "closing" ELSE "closed"]
  /\ UNCHANGED <<sink, connected, session_id, read_handle, cpc, wsRet>>
  /\ UNCHANGED pmVars
  /\ UNCHANGED brVars
  /\ UNCHANGED exVars

(***************************************************************************)
(* Spec: the process supervisor.                                           *)
(***************************************************************************)

\* WsClient::new()
WsInit ==
  /\ sink = None
  /\ connected = FALSE
  /\ session_id = None
  /\ read_handle = None
  /\ cpc = Idle
  /\ conns = <<>>
  /\ wsRet = [op |-> "new"]

\* the statics of skill_executor at process start
ExInit ==
  /\ mcp_port = 0
  /\ effects = <<>>
  /\ exRet = [function_name |-> "", args |-> JNull, port |-> 0, ret |-> JNull]

\* ProcessManager::new()
PmInit ==
  /\ processes = <<>>
  /\ os = <<>>
  /\ pipes = <<>>
  /\ drains = <<>>
  /\ logs = <<>>
  /\ written = 0
  /\ pmRet = [op |-> "new"]

\* no start_mcp_bridge or stop_mcp_bridge command has been invoked
BrInit ==
  /\ bpc = NotStarting
  /\ spc = NotStopping
  /\ startRet = [op |-> "none"]
  /\ stopRet = [op |-> "none"]

\* AppState: a fresh WsClient and a fresh ProcessManager
Init == PmInit /\ WsInit /\ ExInit /\ BrInit

Next ==
  \/ \E n \in Names, ok \in BOOLEAN : SpawnWithEnv(n, ok)
  \/ \E n \in Names : Kill(n)
  \/ \E n \in Names, k \in SmallLinesArgs : GetLogs(n, k)
  \/ \E n \in Names : IsRunning(n)
  \/ List
  \/ Environment({TRUE}, MaxLines)

Spec == Init /\ [][Next]_vars

(***************************************************************************)
(* SpecDrop: the supervisor is used, then dropped; the children and the    *)
(* drain threads go on after it.                                           *)
(***************************************************************************)

NextDrop ==
  \/ Alive /\ \E n \in Names, ok \in BOOLEAN : SpawnWithEnv(n, ok)
  \/ Alive /\ \E n \in Names : Kill(n)
  \/ Alive /\ \E n \in Names : IsRunning(n)
  \/ Alive /\ List
  \/ Environment({TRUE}, MaxLines)
  \/ DropManager

SpecDrop == Init /\ [][NextDrop]_vars

(***************************************************************************)
(* SpecBridge: the bridge is started and stopped, by calls that may run    *)
(* at the same time, while the bridge processes print and end.             *)
(***************************************************************************)

NextBridge ==
  \/ \E h \in Hosts : StartBegin(h)
  \/ \E found \in BOOLEAN : StartPoll(found)
  \/ StopBegin
  \/ StopFinish
  \/ \E p \in Children, st \in Streams, t \in BridgeTexts : BridgeWrite(p, st, t)
  \/ \E p \in Children : ChildExit(p)
  \/ \E p \in Children, st \in Streams : Drain(p, st)
  \/ \E p \in Children, st \in Streams : DrainEof(p, st)

SpecBridge == Init /\ [][NextBridge]_vars

(***************************************************************************)
(* SpecLog: one supervised child, spawned as "mcp-bridge", that has        *)
(* already printed PreLines lines on stdout, all drained into its log      *)
(* buffer; it goes on to write MaxTail lines to either stream.             *)
(***************************************************************************)

InitLog ==
  /\ processes = MapInsert(<<>>, "mcp-bridge", ProcessInfo(1))
  /\ os = <<NewChild("mcp-bridge")>>
  /\ written = PreLines
  /\ pipes = <<EmptyPipes>>
  /\ drains = <<BothRunning>>
  /\ logs = <<[i \in 1..PreLines |-> Tagged("stdout", i)]>>
  /\ pmRet = [op |-> "spawn", name |-> "mcp-bridge", ok |-> TRUE, value |-> 1]
  /\ WsInit
  /\ ExInit
  /\ BrInit

NextLog ==
  \/ \E n \in Names, k \in LargeLinesArgs : GetLogs(n, k)
  \/ Environment(BOOLEAN, PreLines + MaxTail)

SpecLog == InitLog /\ [][NextLog]_vars

(***************************************************************************)
(* SpecExec: the command dispatcher, called with every function name and   *)
(* argument bag, with the bridge port set and reset around the calls.      *)
(***************************************************************************)

NextExec ==
  \/ \E p \in Ports : SetMcpBridgePort(p)
  \/ \E f \in FunctionNames, a \in ArgBags :
       \E o \in Outcomes(f) : Execute(f, a, o)
  \/ \E o \in Outcomes(exRet.function_name) : ExecuteReturn(o)

SpecExec == Init /\ [][NextExec]_vars

(***************************************************************************)
(* SpecCmd: an established connection on which the server sends            *)
(* desktop.command frames, with the command tasks running beside the read  *)
(* loop and the client's sends.                                            *)
(***************************************************************************)

\* the payload of the `connected` frame that established the connection
AckPayload == [sessionId |-> JStr("abc"), skills |-> JArr(<<JStr("x"), JNum(7)>>)]

\* connect() has returned success: the handshake is acknowledged, the
\* connect and desktop.register frames are written, the read loop runs
InitCmd ==
  /\ PmInit
  /\ ExInit
  /\ BrInit
  /\ conns = <<[NewConn EXCEPT !.tx = "taken",
                               !.rx = Some([ok |-> TRUE, value |-> AckPayload]),
                               !.out = <<"connect", "desktop.register">>]>>
  /\ sink = Some(1)
  /\ read_handle = Some(1)
  /\ connected = TRUE
  /\ session_id = Some(SessionIdOf(AckPayload))
  /\ cpc = Idle
  /\ wsRet = [op |-> "connect", ok |-> TRUE,
              value |-> [session_id |-> SessionIdOf(AckPayload),
                         device_id |-> "uuid", skills |-> SkillsOf(AckPayload)]]

NextCmd ==
  \/ ClientLock
  \/ ClientWrite
  \/ \E how \in AbortOutcomes : Disconnect(how)
  \/ DisconnectClose
  \/ \E c \in Conns : TaskDrop(c)
  \/ \E k \in WsSendKinds : SendBegin(k)
  \/ \E c \in Conns : ReadNext(c)
  \/ \E c \in Conns : PongWrite(c)
  \/ \E c \in Conns : \E i \in CommandTasks(c) :
       \E o \in Outcomes(conns[c].cmds[i].function_name) : CommandRun(c, i, o)
  \/ \E c \in Conns : \E i \in CommandTasks(c) : CommandStart(c, i)
  \/ \E c \in Conns : \E i \in CommandTasks(c) : CommandWrite(c, i)
  \/ \E c \in Conns, f \in CmdFrames : ServerSend(c, f)
  \/ \E c \in Conns, how \in Ends : ServerEnd(c, how)

SpecCmd == InitCmd /\ [][NextCmd]_vars

(***************************************************************************)
(* SpecEvents: the read loop of an established connection on which the     *)
(* server sends frames of every event type, with two payloads each.        *)
(***************************************************************************)

\* the frames the server sends in SpecEvents
EventFrames ==
  [type : PassThrough \cup {"skill.config.response"},
   payload : {JNull, JStr("a")}]
    \cup {f \in Frames : f.type = "error"}

NextEvents ==
  \/ \E how \in AbortOutcomes : Disconnect(how)
  \/ DisconnectClose
  \/ \E c \in Conns : TaskDrop(c)
  \/ \E c \in Conns : ReadNext(c)
  \/ \E c \in Conns, f \in EventFrames : ServerSend(c, f)
  \/ \E c \in Conns, how \in Ends : ServerEnd(c, how)

SpecEvents == InitCmd /\ [][NextEvents]_vars

(***************************************************************************)
(* SpecEarly: the handshake with a server that sends commands and events   *)
(* before, or instead of, its handshake reply; the commands succeed.       *)
(***************************************************************************)

\* the frames the server sends in SpecEarly
EarlyFrames ==
  {f \in CommandFrames : f.payload.commandId = JStr("c1")}
    \cup {f \in Frames : f.type = "chat.chunk"}
    \cup {f \in Frames : f.type = "connected" /\ f.payload = AckPayload}

NextEarly ==
  \/ \E how \in AbortOutcomes : ConnectBegin(how)
  \/ \E ok \in BOOLEAN : ConnectOpen(ok)
  \/ ClientLock
  \/ ClientWrite
  \/ \E how \in AbortOutcomes : ConnectResolve(how)
  \/ \E how \in AbortOutcomes : ConnectTimeout(how)
  \/ DisconnectClose
  \/ \E c \in Conns : TaskDrop(c)
  \/ \E c \in Conns : ReadNext(c)
  \/ \E c \in Conns : \E i \in CommandTasks(c) : CommandRun(c, i, "ok")
  \/ \E c \in Conns : \E i \in CommandTasks(c) : CommandStart(c, i)
  \/ \E c \in Conns : \E i \in CommandTasks(c) : CommandWrite(c, i)
  \/ \E c \in Conns, f \in EarlyFrames : ServerSend(c, f)
  \/ \E c \in Conns, how \in Ends : ServerEnd(c, how)

SpecEarly == Init /\ [][NextEarly]_vars

(***************************************************************************)
(* SpecReconnect: an established connection receives commands, and the     *)
(* client calls connect() on it again while command tasks may still be     *)
(* running; the connection that replaces it is not replaced in turn.       *)
(***************************************************************************)

\* the frames the server sends in SpecReconnect
ReconnectFrames ==
  {f \in CommandFrames : f.payload.commandId = JStr("c1")}
    \cup {f \in Frames : f.type = "connected" /\ f.payload = AckPayload}

NextReconnect ==
  \/ sink = Some(1) /\ \E how \in AbortOutcomes : ConnectBegin(how)
  \/ \E ok \in BOOLEAN : ConnectOpen(ok)
  \/ ClientLock
  \/ ClientWrite
  \/ \E how \in AbortOutcomes : ConnectResolve(how)
  \/ \E how \in AbortOutcomes : ConnectTimeout(how)
  \/ DisconnectClose
  \/ \E c \in Conns : TaskDrop(c)
  \/ \E c \in Conns : ReadNext(c)
  \/ \E c \in Conns : \E i \in CommandTasks(c) : CommandRun(c, i, "ok")
  \/ \E c \in Conns : \E i \in CommandTasks(c) : CommandStart(c, i)
  \/ \E c \in Conns : \E i \in CommandTasks(c) : CommandWrite(c, i)
  \/ \E c \in Conns, f \in ReconnectFrames : ServerSend(c, f)

SpecReconnect == InitCmd /\ [][NextReconnect]_vars

(***************************************************************************)
(* SpecWs: the connection state machine, every call of the client, with   *)
(* the coordinator at the other end of each transport.  SpecConnect is the *)
(* handshake under the scheduling the runtime guarantees.                  *)
(***************************************************************************)

NextWs ==
  \/ \E how \in AbortOutcomes : ConnectBegin(how)
  \/ \E ok \in BOOLEAN : ConnectOpen(ok)
  \/ ClientLock
  \/ ClientWrite
  \/ \E how \in AbortOutcomes : ConnectResolve(how)
  \/ \E how \in AbortOutcomes : ConnectTimeout(how)
  \/ \E how \in AbortOutcomes : Disconnect(how)
  \/ DisconnectClose
  \/ \E c \in Conns : TaskDrop(c)
  \/ IsConnected
  \/ \E k \in SendCalls : SendBegin(k)
  \/ \E c \in Conns : ReadNext(c)
  \/ \E c \in Conns : PongWrite(c)
  \/ \E c \in Conns, f \in WsFrames : ServerSend(c, f)
  \/ \E c \in Conns, how \in Ends : ServerEnd(c, how)

SpecWs == Init /\ [][NextWs]_vars

\* the calls of connect() alone, against the same coordinator: the client
\* mutex admits no other client call while connect() runs, and connect()
\* starts from whatever the previous call left behind
NextConnect ==
  \/ \E how \in AbortOutcomes : ConnectBegin(how)
  \/ \E ok \in BOOLEAN : ConnectOpen(ok)
  \/ ClientLock
  \/ ClientWrite
  \/ \E how \in AbortOutcomes : ConnectResolve(how)
  \/ \E how \in AbortOutcomes : ConnectTimeout(how)
  \/ DisconnectClose
  \/ \E c \in Conns : TaskDrop(c)
  \/ \E c \in Conns : ReadNext(c)
  \/ \E c \in Conns : PongWrite(c)
  \/ \E c \in Conns, f \in WsFrames : ServerSend(c, f)
  \/ \E c \in Conns, how \in Ends : ServerEnd(c, how)

\* the runtime resumes connect() when the oneshot channel resolves, its
\* timer fires when the 15 s deadline elapses, and the close() disconnect()
\* waits in returns: the socket that took the connect frame takes the close
\* frame, or fails the write.  Nothing is assumed of the server's answers
\* or of the read loop
SpecConnect ==
  /\ Init
  /\ [][NextConnect]_vars
  /\ WF_vars(\E how \in AbortOutcomes : ConnectResolve(how))
  /\ WF_vars(\E how \in AbortOutcomes : ConnectTimeout(how))
  /\ WF_vars(DisconnectClose)

(***************************************************************************)
(* Claims about the process supervisor.                                    *)
(***************************************************************************)

Registered(p) ==
  /\ os[p].name \in DOMAIN processes
  /\ processes[os[p].name].child = p

\* C1: after every spawn / spawn_with_env / kill call, at most one process
\* started under a name is alive: a child that is no longer the registered one
\* of its name has been killed and waited for, so any live child is the one the
\* registry holds under its name.
C1_OneLivePerName ==
  /\ \A n \in Names :
       Cardinality({p \in Children : os[p].name = n /\ os[p].state = "alive"}) <= 1
  /\ \A p \in Children : Registered(p) \/ os[p].state = "reaped"

\* C1 witness: a name was respawned while its first child was still alive; the
\* old child is reaped and the new one is registered and alive.
C1_Witness ==
  /\ pmRet.op = "spawn" /\ pmRet.ok
  /\ \E p, q \in Children :
       /\ p < q /\ os[p].name = os[q].name
       /\ os[p].state = "reaped"
       /\ Registered(q) /\ os[q].state = "alive" /\ pmRet.value = q

\* the last n entries of s, in order
LastN(s, n) == [i \in 1..n |-> s[Len(s) - n + i]]

LogsBounded == \A p \in DOMAIN logs : Len(logs[p]) <= MAX_LOG_LINES

\* a step that changes a live log buffer appends one entry: the buffer grows by
\* one up to the capacity, and what precedes the new entry is the tail of the
\* old buffer, in the same order (only the oldest entry may have gone).
AppendKeepsOrder ==
  \A p \in DOMAIN logs :
    (logs'[p] # logs[p] /\ LogHeld(processes', drains', p)) =>
      /\ Len(logs'[p]) = Min(Len(logs[p]) + 1, MAX_LOG_LINES)
      /\ SubSeq(logs'[p], 1, Len(logs'[p]) - 1)
           = LastN(logs[p], Len(logs'[p]) - 1)

\* C2: a log buffer never holds more than MAX_LOG_LINES (1000) entries, under
\* every interleaving of the two drain loops and get_logs; an append to a full
\* buffer evicts the oldest entry and the others keep their append order.
C2_LogBounded == []LogsBounded /\ [][AppendKeepsOrder]_vars

\* C2 witness: the buffer is full and its oldest lines have been evicted while
\* both streams contributed entries.
C2_Witness ==
  /\ Len(logs[1]) = MAX_LOG_LINES
  /\ logs[1][1].line > 1
  /\ \E i \in DOMAIN logs[1] : logs[1][i].tag = "stderr"
  /\ logs[1][MAX_LOG_LINES].tag = "stdout"

\* a get_logs call returns in this step
GetLogsReturns == pmRet' # pmRet /\ pmRet'.op = "get_logs"

\* C3: get_logs(name, k) on a registered name returns exactly the last
\* min(k, len) entries of that process's buffer, in order: never more than k,
\* and the whole buffer when it holds fewer than k.
C3_GetLogsTail ==
  [][(GetLogsReturns /\ pmRet'.ok) =>
       LET log == logs[processes[pmRet'.name].logs]
       IN  /\ pmRet'.value = LastN(log, Min(pmRet'.lines, Len(log)))
           /\ Len(pmRet'.value) <= pmRet'.lines]_vars

\* C3 witness: get_logs returned a proper, non-empty tail of a full buffer.
C3_Witness ==
  /\ pmRet.op = "get_logs" /\ pmRet.ok
  /\ pmRet.lines = MAX_LOG_LINES - 1
  /\ Len(pmRet.value) = MAX_LOG_LINES - 1
  /\ Len(logs[1]) = MAX_LOG_LINES

\* C4: get_logs on a name that is not registered fails with "not found" (and
\* succeeds on a registered one) and changes nothing; so it fails right after
\* kill(name), whether or not the drain loops of the killed child still run.
C4_GetLogsNotFound ==
  /\ [](pmRet.op = "get_logs" =>
          /\ pmRet.ok <=> pmRet.name \in DOMAIN processes
          /\ ~pmRet.ok => pmRet.value = "not found")
  /\ [][GetLogsReturns => UNCHANGED <<processes, os, pipes, drains, logs, written>>]_vars

\* C4 witness: get_logs failed on a name whose child was killed and reaped
\* while one of its drain loops still has a line to append.
C4_Witness ==
  /\ pmRet.op = "get_logs" /\ ~pmRet.ok
  /\ \E p \in Children, s \in Streams :
       /\ os[p].name = pmRet.name /\ os[p].state = "reaped"
       /\ drains[p][s] = "running" /\ pipes[p][s] # <<>>

\* after kill(name) returned: no error, the name is not registered and every
\* child started under it is dead and reaped; a second kill(name) in that
\* state changes nothing.
KillPost ==
  pmRet.op = "kill" =>
    /\ pmRet.ok
    /\ pmRet.name \notin DOMAIN processes
    /\ \A p \in Children : os[p].name = pmRet.name => os[p].state = "reaped"
    /\ ~ENABLED (Kill(pmRet.name) /\ vars' # vars)

\* a step into a state where kill(name) has returned touches no other name,
\* registers nothing, and reaps no child but the one registered under name.
KillFrame ==
  pmRet'.op = "kill" =>
    /\ DOMAIN processes' = (DOMAIN processes) \ {pmRet'.name}
    /\ \A n \in DOMAIN processes' : processes'[n] = processes[n]
    /\ \A p \in Children :
         (os'[p].state = "reaped" /\ os[p].state # "reaped") =>
           (Registered(p) /\ os[p].name = pmRet'.name)

\* C5: kill(name) never returns an error; on an unregistered name it leaves
\* the registry unchanged, on a registered one the process is terminated,
\* waited for and removed; kill(name); kill(name) equals kill(name).
C5_KillIdempotent == []KillPost /\ [][KillFrame]_vars

\* C5 witness: kill returned on a name that was never registered while another
\* name holds a live child.
C5_Witness ==
  /\ pmRet.op = "kill" /\ pmRet.ok
  /\ \A p \in Children : os[p].name # pmRet.name
  /\ \E p \in Children : Registered(p) /\ os[p].state = "alive"

(***************************************************************************)
(* WsClient claims                                                         *)
(***************************************************************************)

\* the receive task of transport c has not ended
TaskAlive(c) == conns[c].task \in {"running", "pong"} /\ ~conns[c].cancel

\* the Disconnected state: nothing held, nothing running
Disconnected ==
  /\ ~connected
  /\ session_id = None
  /\ sink = None
  /\ read_handle = None
  /\ \A c \in Conns : ~TaskAlive(c)

\* a call of connect() returns in this step
ConnectReturns == cpc.pc # "idle" /\ cpc'.pc = "idle" /\ wsRet'.op = "connect"

\* connect() leaves a failure arm with the error err in this step: its
\* disconnect() ran to the end and connect() returns the error, or
\* disconnect() waits in close() with the handle and the sink taken
LeavesWith(err) ==
  \/ /\ ConnectReturns
     /\ wsRet' = [op |-> "connect", ok |-> FALSE, err |-> err]
     /\ Disconnected'
  \/ /\ cpc' = [pc |-> "failing", what |-> err]
     /\ sink' = None
     /\ read_handle' = None

\* the close() a failure arm of connect() waited in returns in this step:
\* connect() returns the error of the arm, disconnected
FailureReturned ==
  (cpc.pc = "failing" /\ cpc'.pc # "failing")
    => /\ ConnectReturns
       /\ wsRet' = [op |-> "connect", ok |-> FALSE, err |-> cpc.what]
       /\ Disconnected'

\* frame type a is written before frame type b in out
WrittenBefore(out, a, b) ==
  \E i, j \in DOMAIN out : i < j /\ out[i] = a /\ out[j] = b

\* C6: in every reachable state, connected = true implies that the sink and
\* the receive-task handle are both present, that the receive task is still
\* running, and that its transport has not been closed.
C6_ConnectedValid ==
  connected =>
    /\ sink # None
    /\ read_handle # None
    /\ TaskAlive(read_handle[1])
    /\ conns[sink[1]].state = "open"

\* the handshake of the transport held in sink was acknowledged and connect()
\* has returned: the connection is established
Established ==
  /\ cpc = Idle
  /\ sink # None
  /\ conns[sink[1]].rx # None
  /\ conns[sink[1]].rx[1].ok

\* C7: once the receive loop of an established connection has ended on a
\* close frame, a read error or the end of the stream, the connection is torn
\* down without a call of disconnect(): connected is false, the session id is
\* cleared, and no sink is left, so that the send calls fail with "Not
\* connected".
C7_RemoteEndTearsDown ==
  (Established /\ conns[sink[1]].task = "finished") =>
    (~connected /\ session_id = None /\ sink = None)

\* C8: whenever connect() returns an error the client is fully disconnected:
\* connected is false, the session id is absent, no sink and no task handle
\* is held and no receive task is left running.
C8_ErrorDisconnects ==
  [][(ConnectReturns /\ ~wsRet'.ok) => Disconnected']_vars

\* C9: connect() does not hang when the handshake is not answered: every
\* call that waits for the answer goes on to the registration or returns;
\* when the wait ends with the answer still missing, connect() disconnects
\* and returns the timeout error; and connect() returns success only when a
\* handshake acknowledgement was received.
C9_HandshakeDeadline ==
  /\ (cpc.pc = "wait") ~> (cpc.pc \notin {"wait", "failing"})
  /\ [][(cpc.pc = "wait" /\ cpc'.pc # "wait" /\ conns[sink[1]].rx = None)
          => LeavesWith("timeout")]_vars
  /\ [][FailureReturned]_vars
  /\ [][(ConnectReturns /\ wsRet'.ok)
          => (/\ conns[sink[1]].rx # None
              /\ conns[sink[1]].rx[1].ok
              /\ "connect" \in {conns[sink[1]].out[i] : i \in DOMAIN conns[sink[1]].out})]_vars

\* connect() waited out the deadline of an unanswered handshake, closed the
\* transport in its timeout arm and has returned the timeout error
C9_Witness ==
  /\ cpc = Idle
  /\ wsRet = [op |-> "connect", ok |-> FALSE, err |-> "timeout"]
  /\ Disconnected
  /\ \E c \in Conns :
       /\ conns[c].task = "aborted"
       /\ conns[c].tx = "pending"
       /\ conns[c].out = <<"close">>

\* the string entries of a JSON array, in order; nothing when it is no array
StringEntries(j) ==
  IF j.t # "arr" THEN <<>>
  ELSE LET strs == SelectSeq(j.v, LAMBDA e : e.t = "str")
       IN  [i \in DOMAIN strs |-> strs[i].v]

\* what a successful connect() returns and leaves, given the payload of the
\* `connected` frame
AckResult(payload) ==
  /\ wsRet'.value.session_id =
       (IF payload.sessionId.t = "str" THEN payload.sessionId.v ELSE "")
  /\ wsRet'.value.skills = StringEntries(payload.skills)
  /\ connected'
  /\ session_id' = Some(wsRet'.value.session_id)
  /\ sink' = sink

\* C10 as stated: when the server answers with a `connected` frame,
\* connect() returns the sessionId and the string entries of skills of the
\* payload, the client is Connected with that session id, and a
\* desktop.register frame is written after the connect frame before
\* connect() returns.
C10_RegisterAlways ==
  [][(ConnectReturns /\ wsRet'.ok)
       => (/\ AckResult(conns[sink[1]].rx[1].value)
           /\ WrittenBefore(conns'[sink[1]].out, "connect", "desktop.register"))]_vars

\* C10 amended: as above, except that the desktop.register frame is written
\* only if the transport still takes the write; when that write fails,
\* connect() returns success all the same and nothing is written.
C10_RegisterUnlessClosed ==
  [][(ConnectReturns /\ wsRet'.ok)
       => (/\ AckResult(conns[sink[1]].rx[1].value)
           /\ IF Writable(sink[1])
                THEN /\ conns'[sink[1]].out = Append(conns[sink[1]].out, "desktop.register")
                     /\ WrittenBefore(conns'[sink[1]].out, "connect", "desktop.register")
                ELSE conns'[sink[1]].out = conns[sink[1]].out)]_vars

C10_Witness ==
  /\ cpc = Idle
  /\ wsRet.op = "connect"
  /\ wsRet.ok
  /\ wsRet.value = [session_id |-> "abc", device_id |-> "uuid", skills |-> <<"x">>]
  /\ connected
  /\ session_id = Some("abc")
  /\ sink # None
  /\ WrittenBefore(conns[sink[1]].out, "connect", "desktop.register")

\* the read loop reads a frame of type t from transport c in this step
Reads(c, t) ==
  /\ conns[c].task = "running"
  /\ conns[c].inbox # <<>>
  /\ Head(conns[c].inbox).kind = "frame"
  /\ Head(conns[c].inbox).frame.type = t
  /\ conns'[c].inbox = Tail(conns[c].inbox)
  /\ conns'[c].task \in {"running", "pong"}

\* connect() is waiting on transport c and its handshake is unanswered
HandshakePending(c) ==
  /\ cpc.pc = "wait"
  /\ sink = Some(c)
  /\ conns[c].tx = "pending"

\* what connect() does with a rejection once the read loop has passed it
\* on: it disconnects and returns the text it was given, and the client is
\* not Connected at any point of that attempt
RejectionReturned ==
  /\ [](\A c \in Conns :
          (cpc.pc = "wait" /\ sink = Some(c) /\ conns[c].rx # None /\ ~conns[c].rx[1].ok)
            => ~connected)
  /\ [][(cpc.pc = "wait" /\ cpc'.pc # "wait"
            /\ conns[sink[1]].rx # None /\ ~conns[sink[1]].rx[1].ok)
          => LeavesWith(conns[sink[1]].rx[1].value)]_vars
  /\ [][FailureReturned]_vars
  /\ [](cpc.pc = "failing" => ~connected)

\* C11 as stated: when the server answers the pending handshake with an
\* `error` frame, the text that reaches connect() is exactly the
\* payload.message of that frame, whatever the frame carries there;
\* connect() disconnects and returns an error with that text, and the
\* client is not Connected at any point of that attempt.
C11_MessageVerbatim ==
  /\ [][\A c \in Conns :
          (HandshakePending(c) /\ Reads(c, "error"))
            => /\ conns'[c].rx # None
               /\ ~conns'[c].rx[1].ok
               /\ JStr(conns'[c].rx[1].value) =
                    Head(conns[c].inbox).frame.payload.message]_vars
  /\ RejectionReturned

\* C11 amended: the text that reaches connect() is the payload.message of
\* the `error` frame when that is a string, and "Unknown error" when the
\* frame carries no message string; connect() disconnects and returns an
\* error with exactly that text, and the client is not Connected at any
\* point of that attempt.
C11_RejectionVerbatim ==
  /\ [][\A c \in Conns :
          (HandshakePending(c) /\ Reads(c, "error"))
            => LET message == Head(conns[c].inbox).frame.payload.message
               IN  conns'[c].rx =
                     Some([ok |-> FALSE,
                           value |-> IF message.t = "str" THEN message.v
                                                          ELSE "Unknown error"])]_vars
  /\ RejectionReturned

C11_Witness ==
  /\ cpc = Idle
  /\ wsRet = [op |-> "connect", ok |-> FALSE, err |-> "denied"]
  /\ Disconnected
  /\ \E c \in Conns : conns[c].task = "aborted"

\* C12: if the receive task ends (close frame, read error, end of stream)
\* while the handshake is unanswered, connect() leaves its wait with the
\* "server closed connection" error after disconnecting, not with the
\* timeout error of the deadline.
C12_TaskExitResolves ==
  [][(/\ cpc.pc = "wait"
      /\ conns[sink[1]].task = "finished"
      /\ conns[sink[1]].rx = None
      /\ cpc'.pc # "wait")
       => LeavesWith("server closed connection")]_vars

\* a send call is made in this step: it returns at once or goes on to the lock
SendCalled ==
  /\ cpc.pc = "idle"
  /\ \/ cpc'.pc = "lock" /\ cpc'.what \in SendKinds
     \/ cpc'.pc = "idle" /\ wsRet' # wsRet /\ wsRet'.op \in SendKinds

\* C13: a send call made while connected is false fails with "Not
\* connected" and writes no frame to any transport.
C13_SendGuardedByConnected ==
  [][(SendCalled /\ ~connected)
       => (/\ cpc' = Idle
           /\ wsRet'.op \in SendKinds
           /\ ~wsRet'.ok
           /\ wsRet'.err = "Not connected"
           /\ conns' = conns)]_vars

(***************************************************************************)
(* skill_executor claims                                                   *)
(***************************************************************************)

\* execute_local_command has been called and exRet holds the call
Called == exRet.ret # JNull

\* the closed set of function names
Whitelist == {"run_shell", "read_file", "write_file", "list_directory", "call_mcp_tool"}

\* the kinds of the effects of the last call
EffectKinds == {effects[i].kind : i \in DOMAIN effects}

\* the last call failed with the fixed message msg
FailedWith(msg) == exRet.ret = [ok |-> FALSE, v |-> [msg |-> msg, arg |-> JNull]]

\* C16: a function name outside the whitelist is rejected with "Unknown
\* function: <name>" for every argument bag, and the call enters no
\* handler, reads no bridge port and touches nothing outside the process.
C16_UnknownFunctionRejected ==
  (Called /\ exRet.function_name \notin Whitelist) =>
    /\ exRet.ret = [ok |-> FALSE,
                    v |-> [msg |-> "Unknown function: {}",
                           arg |-> [t |-> "str", v |-> exRet.function_name]]]
    /\ effects = <<>>

C16_Witness ==
  /\ Called
  /\ exRet.function_name = "delete_file"
  /\ exRet.args.path = JStr("a")
  /\ ~exRet.ret.ok
  /\ effects = <<>>

\* the last call was function f with a string under key k / without one
HasStr(k) == exRet.args[k].t = "str"

\* C17: a handler called without a required string argument fails with the
\* "Missing '<key>' argument" error of the first key that is missing and
\* runs no shell command and touches no file or directory.
C17_MissingArgument ==
  Called =>
    /\ (exRet.function_name = "run_shell" /\ ~HasStr("command"))
         => (FailedWith("Missing 'command' argument")
             /\ EffectKinds \subseteq {"handler"})
    /\ (exRet.function_name \in {"read_file", "write_file", "list_directory"}
          /\ ~HasStr("path"))
         => (FailedWith("Missing 'path' argument")
             /\ EffectKinds \subseteq {"handler"})
    /\ (exRet.function_name = "write_file" /\ HasStr("path") /\ ~HasStr("content"))
         => (FailedWith("Missing 'content' argument")
             /\ EffectKinds \subseteq {"handler"})

C17_Witness ==
  /\ Called
  /\ exRet.function_name = "write_file"
  /\ HasStr("path")
  /\ exRet.args.content = JNull
  /\ FailedWith("Missing 'content' argument")
  /\ effects = <<[kind |-> "handler", name |-> "write_file"]>>

\* the HTTP requests of the last call
HttpRequests == {i \in DOMAIN effects : effects[i].kind = "http"}

\* C18: call_mcp_tool fails with "MCP bridge is not running" whenever the
\* port it reads is 0, whatever the arguments, and sends no request; with
\* a non-zero port it validates `server` and `tool` and then sends one
\* request to that port.
C18_BridgeNotRunning ==
  (Called /\ exRet.function_name = "call_mcp_tool") =>
    /\ "port_read" \in EffectKinds
    /\ exRet.port = 0
         => (FailedWith("MCP bridge is not running") /\ HttpRequests = {})
    /\ (exRet.port # 0 /\ ~HasStr("server"))
         => (FailedWith("Missing 'server' argument") /\ HttpRequests = {})
    /\ (exRet.port # 0 /\ HasStr("server") /\ ~HasStr("tool"))
         => (FailedWith("Missing 'tool' argument") /\ HttpRequests = {})
    /\ (exRet.port # 0 /\ HasStr("server") /\ HasStr("tool"))
         => \E i \in DOMAIN effects :
              /\ HttpRequests = {i}
              /\ effects[i].port = exRet.port
              /\ effects[i].server = exRet.args.server.v
              /\ effects[i].tool = exRet.args.tool.v

C18_Witness ==
  /\ Called
  /\ exRet.function_name = "call_mcp_tool"
  /\ exRet.port = 0
  /\ exRet.args.server = JNull
  /\ FailedWith("MCP bridge is not running")
  /\ HttpRequests = {}

(***************************************************************************)
(* desktop.command claims                                                  *)
(***************************************************************************)

\* C14: for every desktop.command processed on a connection that stays up,
\* a desktop.result with the same commandId is written on that transport
\* once the command has finished, whatever else is writing at that time.
C14_ResultAlwaysWritten ==
  \A c \in Conns : \A i \in CommandTasks(c) :
    (conns[c].state = "open" /\ conns[c].cmds[i].state = "done")
      => \E j \in DOMAIN conns[c].results :
           conns[c].results[j].commandId = conns[c].cmds[i].command_id

\* task i of transport c takes a step from state a to state b
TaskStep(c, i, a, b) ==
  /\ Len(conns'[c].cmds) = Len(conns[c].cmds)
  /\ conns[c].cmds[i].state = a
  /\ conns'[c].cmds[i].state = b

\* C15: a dispatcher failure becomes a desktop.result frame with success
\* false, the commandId of the command and the error text, which is the
\* frame the task writes; the steps of a command task leave the receive
\* task and its input alone, and the receive task goes on reading.
C15_FailureIsData ==
  /\ [][\A c \in Conns : \A i \in CommandTasks(c) :
          ((TaskStep(c, i, "exec", "writing") \/ TaskStep(c, i, "waiting", "writing"))
             /\ ~exRet'.ret.ok)
            => conns'[c].cmds[i].result_msg =
                 Some([commandId |-> conns[c].cmds[i].command_id,
                       success |-> FALSE,
                       body |-> exRet'.ret.v])]_vars
  /\ [][\A c \in Conns : \A i \in CommandTasks(c) :
          (TaskStep(c, i, "writing", "done") /\ Writable(c))
            => /\ conns'[c].results =
                    Append(conns[c].results, conns[c].cmds[i].result_msg[1])
               /\ conns'[c].out =
                    Append(conns[c].out \o conns[c].queued, "desktop.result")]_vars
  /\ [][\A c \in Conns : \A i \in CommandTasks(c) :
          (/\ Len(conns'[c].cmds) = Len(conns[c].cmds)
           /\ conns'[c].cmds[i].state # conns[c].cmds[i].state)
            => /\ conns'[c].task = conns[c].task
               /\ conns'[c].inbox = conns[c].inbox
               /\ conns'[c].events = conns[c].events]_vars
  /\ [](\A c \in Conns :
          (conns[c].task = "running" /\ conns[c].inbox # <<>>)
            => ENABLED ReadNext(c))

C15_Witness ==
  \E c \in Conns :
    /\ Len(conns[c].cmds) = 2
    /\ conns[c].cmds[1].state = "done"
    /\ conns[c].cmds[2].state = "exec"
    /\ conns[c].results =
         <<[commandId |-> "c2", success |-> FALSE,
            body |-> [msg |-> "Unknown function: {}", arg |-> JStr("delete_file")]]>>

(***************************************************************************)
(* disconnect claims                                                       *)
(***************************************************************************)

\* disconnect() is called
DisconnectCalled ==
  /\ cpc.pc = "idle"
  /\ \/ cpc'.pc = "closing" /\ cpc'.what = "disconnect"
     \/ wsRet.op # "disconnect" /\ wsRet'.op = "disconnect"

\* disconnect() returns
DisconnectReturns ==
  /\ cpc'.pc = "idle"
  /\ wsRet'.op = "disconnect"
  /\ cpc.pc = "closing" \/ wsRet.op # "disconnect"

\* C19: disconnect() can be called in every state in which the client is
\* not inside another call, whoever holds the sink lock, and a call that
\* does not get the lock returns in the same step, without a close frame; it
\* aborts the receive task it holds, closes the transport only if the sink
\* lock is free at that instant, and returns success with connected false
\* and no session id, sink or task handle; a second call changes nothing.
C19_DisconnectIdempotent ==
  /\ [](cpc.pc = "idle" => ENABLED (\E how \in AbortOutcomes : Disconnect(how)))
  /\ [][DisconnectCalled =>
          /\ sink' = None
          /\ read_handle' = None
          /\ read_handle # None =>
               \/ conns'[read_handle[1]].task \notin {"running", "pong"}
               \/ conns'[read_handle[1]].cancel
          /\ sink # None =>
               /\ cpc'.pc = "closing" =>
                    /\ conns[sink[1]].lock \in {"free", "pong"}
                    /\ conns[sink[1]].lock = "pong" =>
                         conns'[sink[1]].queued = <<"pong">>
                    /\ conns'[sink[1]].lock = "client"
               /\ cpc'.pc # "closing" =>
                    /\ conns'[sink[1]].out = <<>>
                    /\ conns'[sink[1]].state \in {"closed", "orphan"}
                    /\ conns'[sink[1]].state = "orphan" => conns'[sink[1]].lock # "free"]_vars
  /\ [][DisconnectReturns =>
          /\ wsRet'.ok
          /\ Disconnected'
          /\ cpc.pc = "closing" =>
               /\ conns'[ClosingConn].state = "closed"
               /\ conns[ClosingConn].state # "closed" =>
                    conns'[ClosingConn].out = Append(conns[ClosingConn].queued, "close")]_vars
  /\ []((wsRet.op = "disconnect" /\ cpc.pc = "idle") =>
          (Disconnected /\
             ~ENABLED (\E how \in AbortOutcomes : Disconnect(how) /\ vars' # vars)))

\* disconnect() has returned from a call made while a command task was
\* writing its result under the sink lock: the close was skipped
C19_Witness ==
  /\ wsRet.op = "disconnect"
  /\ cpc = Idle
  /\ Disconnected
  /\ \E c \in Conns :
       /\ conns[c].task = "aborted"
       /\ conns[c].state = "orphan"
       /\ conns[c].lock = "cmd"
       /\ conns[c].out = <<>>

\* the receive tasks that have neither finished nor been aborted
LiveTasks == {c \in Conns : TaskAlive(c)}

\* C20: at most one connection is active at any time: there is never more
\* than one receive task that has not been aborted or finished, and a live
\* receive task is the one the client holds the handle of.
C20_OneConnection ==
  /\ Cardinality(LiveTasks) <= 1
  /\ \A c \in LiveTasks : read_handle = Some(c)

C20_Witness ==
  /\ Len(conns) = 2
  /\ conns[1].task = "aborted"
  /\ LiveTasks = {2}
  /\ connected

\* C21: while the handshake of a connection is pending, no inbound frame
\* other than the handshake reply is acted on: no desktop.command has been
\* dispatched to a command task and no event has been forwarded to the sink.
C21_NothingBeforeHandshake ==
  \A c \in Conns :
    conns[c].tx = "pending" => (conns[c].cmds = <<>> /\ conns[c].events = <<>>)

\* C21, the command half alone: a command task exists while the handshake
\* is still pending.
C21_CommandBeforeHandshake ==
  \E c \in Conns : conns[c].tx = "pending" /\ conns[c].cmds # <<>>

\* the outcome a `connected` or `error` frame stands for
OutcomeOf(f) ==
  IF f.type = "connected"
    THEN [ok |-> TRUE, value |-> f.payload]
    ELSE [ok |-> FALSE, value |-> AsStrOr(f.payload.message, "Unknown error")]

\* C25: the pending-handshake slot is resolved at most once per connect
\* attempt.  The first `connected` or `error` frame read while the slot is
\* pending takes it and stores its outcome; once the slot is taken it stays
\* taken and the stored outcome never changes, whatever `connected` or
\* `error` frames are read later (it is only dropped with the transport);
\* and when connect() stops waiting with an outcome stored, its result is
\* that outcome.
C25_SlotResolvedOnce ==
  /\ [][\A c \in Conns :
          /\ \A t \in {"connected", "error"} :
                (Reads(c, t) /\ conns[c].tx = "pending")
                  => /\ conns'[c].tx = "taken"
                     /\ conns'[c].rx = Some(OutcomeOf(Head(conns[c].inbox).frame))
          /\ conns[c].tx = "taken"
                => /\ conns'[c].tx = "taken"
                   /\ conns'[c].rx \in {conns[c].rx, None}
          /\ \A t \in {"connected", "error"} :
                (Reads(c, t) /\ conns[c].tx = "taken")
                  => conns'[c].rx = conns[c].rx]_vars
  /\ [][(cpc.pc = "wait" /\ cpc'.pc # "wait" /\ conns[sink[1]].rx # None)
          => LET first == conns[sink[1]].rx[1]
             IN  IF first.ok
                   THEN /\ connected'
                        /\ session_id' = Some(SessionIdOf(first.value))
                        /\ cpc'.what = ConnectRegister
                   ELSE LeavesWith(first.value)]_vars
  /\ [][FailureReturned]_vars

\* connect() returned the success of the first frame, and an `error` frame
\* read after it went to the event sink with the stored outcome unchanged
C25_Witness ==
  /\ cpc = Idle
  /\ wsRet.op = "connect" /\ wsRet.ok
  /\ \E c \in Conns :
       /\ sink = Some(c)
       /\ conns[c].rx = Some([ok |-> TRUE, value |-> AckPayload])
       /\ conns[c].events # <<>>
       /\ conns[c].events[1].type = "error"

\* the read loop takes a text frame, of whatever type, from transport c
ReadsFrame(c) ==
  /\ conns[c].task = "running"
  /\ conns[c].inbox # <<>>
  /\ Head(conns[c].inbox).kind = "frame"
  /\ conns'[c].inbox = Tail(conns[c].inbox)
  /\ conns'[c].task \in {"running", "pong"}

\* the handshake of transport c was resolved with an error
Rejected(c) == conns[c].rx # None /\ ~conns[c].rx[1].ok

\* C26, the routing alone: an `error` frame read while the handshake is
\* pending resolves it with the error and sends nothing to the event sink;
\* one read after the slot was taken is sent to the event sink as an error
\* event, and the read loop and the transport stay as they were.
C26_ErrorRoutedByState ==
  [][\A c \in Conns :
       Reads(c, "error")
         => IF conns[c].tx = "pending"
              THEN /\ conns'[c].rx = Some(OutcomeOf(Head(conns[c].inbox).frame))
                   /\ conns'[c].events = conns[c].events
              ELSE /\ conns'[c].events =
                        Append(conns[c].events,
                               [type |-> "error",
                                payload |-> Head(conns[c].inbox).frame.payload])
                   /\ conns'[c].rx = conns[c].rx
                   /\ conns'[c].task = "running"
                   /\ conns'[c].state = conns[c].state]_vars

\* C26: an inbound `error` frame is routed by the handshake state, and once
\* an `error` frame has resolved the pending handshake the read loop takes
\* no further frame from the transport.
C26_ErrorRoutedAndStops ==
  /\ C26_ErrorRoutedByState
  /\ [][\A c \in Conns : Rejected(c) => ~ReadsFrame(c)]_vars

\* the events of the pass-through types among those sent to the event sink
PassEvents(events) == SelectSeq(events, LAMBDA e : e.type \in PassThrough)

\* C27: every inbound frame of a pass-through type is forwarded to the
\* event sink exactly once and unmodified, in arrival order: reading such a
\* frame appends an event with the frame's type and payload behind the
\* events already sent, and no other step adds, changes or reorders the
\* pass-through events of a transport (they go only with the transport).
C27_PassThroughForwarded ==
  [][\A c \in Conns :
       IF \E t \in PassThrough : Reads(c, t)
         THEN conns'[c].events =
                Append(conns[c].events, Head(conns[c].inbox).frame)
         ELSE \/ PassEvents(conns'[c].events) = PassEvents(conns[c].events)
              \/ conns'[c].events = <<>>]_vars

\* two frames of different pass-through types and payloads have reached the
\* event sink in the order the server sent them
C27_Witness ==
  \E c \in Conns :
    /\ conns[c].nsent = 2
    /\ conns[c].inbox = <<>>
    /\ conns[c].events = <<[type |-> "skill.list.response", payload |-> JStr("a")],
                           [type |-> "chat.done", payload |-> JNull]>>

\* C28: an inbound frame of the family skill.config.* is forwarded to the
\* event sink like the other recognized event types.
C28_SkillConfigForwarded ==
  [][\A c \in Conns :
       Reads(c, "skill.config.response")
         => conns'[c].events =
              Append(conns[c].events, Head(conns[c].inbox).frame)]_vars

\* the read loop of transport c takes the end of its stream (a close frame,
\* a read error or the end itself) in this step
ReadsEnd(c) ==
  /\ conns[c].task = "running"
  /\ conns[c].inbox # <<>>
  /\ Head(conns[c].inbox).kind \in Ends
  /\ conns'[c].inbox = Tail(conns[c].inbox)
  /\ conns'[c].task # "aborted"

\* the `disconnected` events among those sent to the event sink
DisconnectedEvents(events) == SelectSeq(events, LAMBDA e : e.type = "disconnected")

\* C29: when the transport delivers a close frame, a read error or the end
\* of the stream, the read loop sends one `disconnected` event carrying the
\* reason and terminates; a terminated read loop stays terminated, reads
\* nothing more and sends no further event, so a transport never has more
\* than one `disconnected` event.
C29_DisconnectedOnce ==
  /\ [][\A c \in Conns :
          /\ ReadsEnd(c)
                => /\ conns'[c].events =
                        Append(conns[c].events,
                               [type |-> "disconnected",
                                payload |->
                                  [reason |->
                                     DisconnectReason(Head(conns[c].inbox).kind)]])
                   /\ conns'[c].task = "finished"
          /\ conns[c].task = "finished"
                => /\ conns'[c].task = "finished"
                   /\ ~ReadsFrame(c)
                   /\ conns'[c].events \in {conns[c].events, <<>>}]_vars
  /\ [](\A c \in Conns :
          /\ Len(DisconnectedEvents(conns[c].events)) <= 1
          /\ (conns[c].task = "finished" /\ sink = Some(c))
                => /\ conns[c].events # <<>>
                   /\ conns[c].events[Len(conns[c].events)].type = "disconnected")

\* the read loop forwarded a frame, then read the close frame, sent its one
\* `disconnected` event and ended
C29_Witness ==
  \E c \in Conns :
    /\ conns[c].task = "finished"
    /\ conns[c].events =
         <<[type |-> "chat.chunk", payload |-> JNull],
           [type |-> "disconnected", payload |-> [reason |-> <<"server_close">>]]>>

\* how many pong frames were written to a transport
Pongs(out) == Len(SelectSeq(out, LAMBDA k : k = "pong"))

\* the pings the server sent that the read loop has not read yet
UnreadPings(inbox) ==
  Len(SelectSeq(inbox, LAMBDA m : m.kind = "frame" /\ m.frame.type = "ping"))

\* C30: for each inbound ping the read loop writes at most one pong.  When
\* the sink lock is free as the ping is read, the loop takes it and writes
\* one pong; when another writer holds it, the ping is dropped with no
\* other effect and the loop is at once ready for the next frame: it never
\* waits for the lock.  Pongs are written by nothing else, so the pongs
\* written, the one being written and the pings still unread never exceed
\* the frames the server sent.
C30_PongBestEffort ==
  /\ [][\A c \in Conns :
          /\ Reads(c, "ping")
                => IF conns[c].lock = "free"
                     THEN conns'[c] = [conns[c] EXCEPT !.inbox = Tail(@),
                                                       !.lock = "pong",
                                                       !.task = "pong"]
                     ELSE conns'[c] = [conns[c] EXCEPT !.inbox = Tail(@)]
          /\ (conns[c].task = "pong" /\ conns'[c].task = "running")
                => /\ conns'[c].lock = "free"
                   /\ conns'[c].out = IF Writable(c)
                                         THEN Append(conns[c].out, "pong")
                                         ELSE conns[c].out
          /\ Pongs(conns'[c].out) > Pongs(conns[c].out)
                => /\ conns[c].task = "pong" \/ conns[c].queued = <<"pong">>
                   /\ Pongs(conns'[c].out) = Pongs(conns[c].out) + 1]_vars
  /\ [](\A c \in Conns :
          /\ conns[c].task = "pong" => conns[c].lock = "pong"
          /\ Len(conns[c].queued) + (IF conns[c].task = "pong" THEN 1 ELSE 0) <= 1
          /\ (sink = Some(c) \/ conns[c].task \in {"running", "pong"}) =>
                Pongs(conns[c].out) + Len(conns[c].queued)
                  + (IF conns[c].task = "pong" THEN 1 ELSE 0)
                  + UnreadPings(conns[c].inbox) <= conns[c].nsent)

\* the server sent two frames that left no event and no command task, that
\* is two pings, and exactly one pong was written: one ping was answered,
\* the other was read while a writer held the lock and dropped
C30_Witness ==
  \E c \in Conns :
    /\ sink = Some(c)
    /\ conns[c].nsent = 2
    /\ conns[c].inbox = <<>>
    /\ conns[c].events = <<>>
    /\ conns[c].cmds = <<>>
    /\ conns[c].task = "running"
    /\ Pongs(conns[c].out) = 1

\* C24: when the ProcessManager is dropped, every process registered at
\* that moment is killed and waited for, and the registry is emptied; as a
\* process leaves the registry only by being killed and waited for, no
\* process the supervisor spawned is alive or unreaped after the drop.
C24_DropKillsAll ==
  /\ [][(Alive /\ ~Alive')
          => /\ \A n \in DOMAIN processes :
                  os'[processes[n].child].state = "reaped"
             /\ \A p \in Children \ Tracked : os'[p] = os[p]
             /\ processes' = <<>>]_vars
  /\ [](~Alive => /\ processes = <<>>
                  /\ \A p \in Children : os[p].state = "reaped")

\* the supervisor was dropped with both names registered, and the drop
\* reaped both children while a drain thread was still reading
C24_Witness ==
  /\ ~Alive
  /\ pmRet.value = {1, 2}
  /\ \A p \in Children : os[p].state = "reaped"
  /\ \E p \in Children, s \in Streams : drains[p][s] = "running"

\* the lines the bridge printed on stdout among the last PollLines entries
\* of its log, as it printed them
PrintedOnStdout ==
  IF "mcp-bridge" \in DOMAIN processes
    THEN LET tail == LogTail(logs[processes["mcp-bridge"].logs], PollLines)
             out  == SelectSeq(tail, LAMBDA e : e.tag = "stdout")
         IN  [i \in DOMAIN out |-> out[i].line]
    ELSE <<>>

\* the port the bridge has announced on stdout, 0 if none
AnnouncedPort == FirstPort(PrintedOnStdout)

\* start_mcp_bridge takes a turn of its polling loop in this step
Polls == bpc.pc = "poll" /\ bpc' # bpc

\* C22: if the bridge has printed MCP_BRIDGE_PORT=<p>, p a valid non-zero
\* port, on stdout when start_mcp_bridge polls its log, the call publishes p
\* through set_mcp_bridge_port and leaves the bridge registered; it does
\* not kill it and fail with "no port detected".
C22_PortPublished ==
  [][(Polls /\ AnnouncedPort > 0)
       => /\ mcp_port' = AnnouncedPort
          /\ "mcp-bridge" \in DOMAIN processes'
          /\ bpc'.pc = "discover"
          /\ startRet' # StartErr("MCP bridge failed to start (no port detected)")]_vars

\* C22, what the code does instead: whatever the bridge printed, no call of
\* start_mcp_bridge ever publishes a port or succeeds with a bridge running
C22_NeverPublished ==
  /\ mcp_port = 0
  /\ (startRet.op = "start" /\ startRet.ok) => startRet.value = <<>>

\* stop_mcp_bridge returns in this step
StopReturns == spc.pc = "lock" /\ spc'.pc = "idle"

\* C23: when stop_mcp_bridge returns, the bridge port cell reads 0 and no
\* process is registered under "mcp-bridge", also when the call ran at the
\* same time as a start_mcp_bridge call and had to wait for it.
C23_StoppedMeansReset ==
  [][StopReturns
       => /\ mcp_port' = 0
          /\ "mcp-bridge" \notin DOMAIN processes'
          /\ stopRet' = [op |-> "stop", ok |-> TRUE, waited |-> spc.waited]]_vars

\* a stop_mcp_bridge call that began while start_mcp_bridge was polling,
\* with the bridge's port line in the log, has returned after that call;
\* the bridge it killed had been spawned by the start call
C23_Witness ==
  /\ stopRet = [op |-> "stop", ok |-> TRUE, waited |-> TRUE]
  /\ spc = NotStopping
  /\ bpc = NotStarting
  /\ startRet.op = "start"
  /\ mcp_port = 0
  /\ "mcp-bridge" \notin DOMAIN processes
  /\ \E p \in Children :
       /\ os[p] = [name |-> "mcp-bridge", state |-> "reaped"]
       /\ \E i \in DOMAIN logs[p] : PortOfLine(logs[p][i].line) # None

\* the command tasks of transport c that have not ended
Running(c) == {i \in CommandTasks(c) : conns[c].cmds[i].state # "done"}

\* C31: executing a desktop.command never blocks the read loop.  Reading
\* the frame only spawns the task and leaves the loop ready for the next
\* frame; while command tasks are running the loop reads whatever is in
\* its input, and every later frame is handled as it would be without
\* them.
C31_CommandsDoNotBlock ==
  /\ [][\A c \in Conns :
          /\ Reads(c, "desktop.command")
                => conns'[c] =
                     [conns[c] EXCEPT
                        !.inbox = Tail(@),
                        !.cmds = Append(@, SpawnCommand(Head(conns[c].inbox).frame.payload))]
          /\ (ReadsFrame(c) /\ Running(c) # {})
                => conns'[c] = Handle([conns[c] EXCEPT !.inbox = Tail(@)],
                                      Head(conns[c].inbox).frame)]_vars
  /\ [](\A c \in Conns :
          (Running(c) # {} /\ sink = Some(c) /\ conns[c].inbox # <<>>
             /\ conns[c].task # "finished")
            => \/ ENABLED ReadNext(c)
               \/ ENABLED PongWrite(c))

\* two commands arrived, c1 before c2; the second was read and dispatched
\* while the first was running, and its result is written while the first
\* still runs
C31_Witness ==
  \E c \in Conns :
    /\ Len(conns[c].cmds) = 2
    /\ conns[c].cmds[1].command_id = "c1" /\ conns[c].cmds[1].state = "exec"
    /\ conns[c].cmds[2].command_id = "c2" /\ conns[c].cmds[2].state = "done"
    /\ Len(conns[c].results) = 1
    /\ conns[c].results[1].commandId = "c2"

\* connect() is between the spawn of the read loop and its return, on
\* transport c
Handshaking(c) ==
  /\ sink = Some(c)
  /\ \/ cpc.what = "connect" /\ cpc.pc \in {"lock", "write"}
     \/ cpc.pc = "wait"

\* C32: in connect() the read loop is started before the connect frame is
\* written.  From the moment the transport is stored, and so before
\* anything is written on it, the loop is there with the oneshot slot
\* armed: a frame the server has sent is read by it, in the order sent, a
\* frame leaves the input only by being read, and a `connected` frame read
\* while the slot is unresolved resolves it, whether or not the connect
\* frame has been written by then.
C32_ReadLoopBeforeHandshake ==
  /\ [](\A c \in Conns :
          Handshaking(c) =>
            /\ conns[c].rx = None => conns[c].tx = "pending"
            /\ conns[c].inbox # <<>> =>
                  \/ ENABLED ReadNext(c)
                  \/ conns[c].task = "pong"
                  \/ conns[c].task = "finished" /\ conns[c].state = "closed")
  /\ [][\A c \in Conns :
          (Handshaking(c) /\ sink' = sink) =>
            /\ \/ conns'[c].inbox = conns[c].inbox
               \/ /\ conns'[c].inbox # <<>>
                  /\ conns'[c].inbox =
                       Append(conns[c].inbox,
                              conns'[c].inbox[Len(conns'[c].inbox)])
               \/ /\ conns[c].inbox # <<>>
                  /\ conns'[c].inbox = Tail(conns[c].inbox)
                  /\ conns[c].task = "running"
            /\ (Reads(c, "connected") /\ conns[c].rx = None)
                  => conns'[c].rx =
                       Some([ok |-> TRUE,
                             value |-> Head(conns[c].inbox).frame.payload])]_vars

\* the server answered as soon as the transport was open: the reply is read
\* and the slot resolved while connect() has not yet written its connect
\* frame
C32_Witness ==
  \E c \in Conns :
    /\ sink = Some(c)
    /\ cpc.what = "connect" /\ cpc.pc \in {"lock", "write"}
    /\ conns[c].out = <<>>
    /\ conns[c].rx # None
    /\ conns[c].rx[1].ok

\* C33: command tasks still running when disconnect() is called are not
\* cancelled, but their results are discarded: once disconnect() has
\* returned, no task is taken away before it has ended, and no
\* desktop.result is written on the transport that was given up.
C33_ResultsDiscardedAfterDisconnect ==
  [][\A c \in Conns :
       (wsRet.op = "disconnect" /\ sink # Some(c)) =>
         /\ Len(conns'[c].cmds) >= Len(conns[c].cmds)
         /\ \A i \in CommandTasks(c) :
              conns'[c].cmds[i].state # conns[c].cmds[i].state
                => <<conns[c].cmds[i].state, conns'[c].cmds[i].state>>
                     \in {<<"exec", "waiting">>, <<"exec", "writing">>,
                          <<"exec", "done">>, <<"waiting", "writing">>,
                          <<"waiting", "done">>, <<"writing", "done">>}
         /\ conns'[c].results = conns[c].results]_vars

(***************************************************************************)
(* The supervisor's registry and buffers                                   *)
(***************************************************************************)

\* C34: after kill(name) has returned, neither drain loop of the killed
\* process appends another line to its log buffer: the buffer of a child
\* that kill has reaped only stays as it is or is freed.
C34_NoAppendAfterKill ==
  [][\A p \in Children :
       (pmRet.op = "kill" /\ pmRet.name = os[p].name /\ os[p].state = "reaped")
         => logs'[p] \in {logs[p], <<>>}]_vars

\* what is_running and list answer is the registry at the call
RegistryReported ==
  /\ pmRet.op = "is_running" => pmRet.value = (pmRet.name \in DOMAIN processes)
  /\ pmRet.op = "list" =>
       /\ DOMAIN pmRet.entries = DOMAIN processes
       /\ \A n \in DOMAIN processes :
            pmRet.entries[n] = [status |-> "Running",
                                pid |-> <<processes[n].child>>]

\* a name leaves the registry, or gets another child, only by kill(name),
\* by a spawn under that name or by the teardown
RegistryFrame ==
  \A n \in DOMAIN processes :
    (n \notin DOMAIN processes' \/ processes'[n] # processes[n])
      => \/ pmRet'.op \in {"kill", "spawn"} /\ pmRet'.name = n
         \/ pmRet'.op = "drop" /\ processes[n].child \in pmRet'.value

\* C35: is_running(name) is true exactly when name is in the registry, and
\* the registry does not follow the process: a child that exited on its own
\* stays registered, and listed with status Running, until kill(name), a
\* respawn under that name or the teardown; nothing else removes a name.
C35_RunningMeansRegistered == []RegistryReported /\ [][RegistryFrame]_vars

\* is_running answered true for a name whose process has exited on its own
C35_Witness ==
  /\ pmRet.op = "is_running" /\ pmRet.value
  /\ os[processes[pmRet.name].child].state = "exited"

\* a spawn call returns the launch error
LaunchFails == pmRet'.op = "spawn" /\ ~pmRet'.ok /\ pmRet' # pmRet

\* C36: spawn_with_env on a name that is registered, whose launch fails,
\* returns the launch error with the old process already killed and waited
\* for and the name no longer registered; the other names keep their
\* processes.
C36_FailedRespawnUnregisters ==
  /\ []((pmRet.op = "spawn" /\ ~pmRet.ok)
          => /\ pmRet.value = "launch failed"
             /\ pmRet.name \notin DOMAIN processes
             /\ \A p \in Children :
                  os[p].name = pmRet.name => os[p].state = "reaped")
  /\ [][LaunchFails =>
          /\ processes' = MapRemove(processes, pmRet'.name)
          /\ Len(os') = Len(os)
          /\ \A p \in Children :
               os'[p] = IF Registered(p) /\ os[p].name = pmRet'.name
                          THEN [os[p] EXCEPT !.state = "reaped"]
                          ELSE os[p]]_vars

\* a respawn failed to launch: its name had a live process before the
\* call, which is reaped, and the name is gone while the other name keeps
\* its live process
C36_Witness ==
  /\ pmRet.op = "spawn" /\ ~pmRet.ok
  /\ \E p \in Children : os[p].name = pmRet.name /\ os[p].state = "reaped"
  /\ \E q \in Children : Registered(q) /\ os[q].state = "alive"

\* the lines in the buffer of child p
LinesOf(p) == {logs[p][i].line : i \in DOMAIN logs[p]}

\* a spawn that launched registers the new child with a buffer of its own,
\* which is empty
FreshBuffer ==
  Len(os') > Len(os) =>
    /\ logs'[Len(os')] = <<>>
    /\ processes'[pmRet'.name].child = Len(os')

\* a buffer receives lines from the pipes of its own child only
OwnLinesOnly ==
  \A q \in Children :
    (logs'[q] # logs[q] /\ logs'[q] # <<>>) =>
      \E st \in Streams :
        /\ pipes[q][st] # <<>>
        /\ logs'[q] = PushLine(logs[q], Tagged(st, Head(pipes[q][st]).text))

\* get_logs answers from the buffer of the child registered at the call
CurrentBufferRead ==
  (pmRet'.op = "get_logs" /\ pmRet'.ok /\ pmRet' # pmRet) =>
    pmRet'.value = LogTail(logs[processes[pmRet'.name].child], pmRet'.lines)

\* C37: every spawn creates a fresh, empty log buffer.  After a respawn
\* under a name, get_logs(name, k) reads the buffer of the new process,
\* which holds lines of the new process only: no line of the previous
\* process is returned, even while its drain loops still run and fill the
\* old buffer.
C37_FreshBufferPerSpawn ==
  /\ [][FreshBuffer /\ OwnLinesOnly /\ CurrentBufferRead]_vars
  /\ [](\A p, q \in Children : p # q => LinesOf(p) \cap LinesOf(q) = {})

\* a name was respawned; the old drain loop is still running and has put a
\* line of the old process in the old buffer, and get_logs on the name
\* returned nothing
C37_Witness ==
  /\ pmRet.op = "get_logs" /\ pmRet.ok /\ pmRet.lines >= 1
  /\ pmRet.value = <<>>
  /\ \E p, q \in Children :
       /\ p < q /\ os[p].name = pmRet.name /\ os[q].name = pmRet.name
       /\ Registered(q)
       /\ logs[p] # <<>>
       /\ \E st \in Streams : drains[p][st] = "running"

(***************************************************************************)
(* The results of the command tasks                                        *)
(***************************************************************************)

\* the desktop.result frames written on transport c that carry id
ResultsFor(c, id) ==
  {j \in DOMAIN conns[c].results : conns[c].results[j].commandId = id}

\* the tasks of transport c that ended, spawned for a command that carried id
EndedFor(c, id) ==
  {i \in CommandTasks(c) :
     conns[c].cmds[i].command_id = id /\ conns[c].cmds[i].state = "done"}

\* a desktop.result is written by a task that holds the lock for it, carries
\* the commandId of that task's command, and is the last thing the task does
ResultWrittenByTask ==
  \A c \in Conns :
    Len(conns'[c].results) > Len(conns[c].results) =>
      \E i \in CommandTasks(c) :
        /\ TaskStep(c, i, "writing", "done")
        /\ conns[c].cmds[i].result_msg[1].commandId = conns[c].cmds[i].command_id
        /\ conns'[c].results =
             Append(conns[c].results, conns[c].cmds[i].result_msg[1])
        /\ \A k \in CommandTasks(c) \ {i} : conns'[c].cmds[k] = conns[c].cmds[k]

\* C39: for each desktop.command frame received at most one desktop.result
\* with its commandId is ever written, and no desktop.result carries a
\* commandId that was not taken from a received desktop.command: on every
\* transport the results with an id are no more than the ended tasks that
\* were spawned for a command with that id.
C39_OneResultPerCommand ==
  /\ [](\A c \in Conns : \A j \in DOMAIN conns[c].results :
          LET id == conns[c].results[j].commandId
          IN  Cardinality(ResultsFor(c, id)) <= Cardinality(EndedFor(c, id)))
  /\ [][ResultWrittenByTask]_vars

\* two commands were received and both answered, the second first: one
\* result each
C39_Witness ==
  \E c \in Conns :
    /\ Len(conns[c].cmds) = 2
    /\ conns[c].cmds[1].command_id = "c1" /\ conns[c].cmds[2].command_id = "c3"
    /\ Len(conns[c].results) = 2
    /\ conns[c].results[1].commandId = "c3"
    /\ conns[c].results[2].commandId = "c1"

\* a task of transport c takes a step
TaskActs(c) ==
  /\ Len(conns'[c].cmds) = Len(conns[c].cmds)
  /\ \E i \in CommandTasks(c) : conns'[c].cmds[i] # conns[c].cmds[i]

\* C40: a desktop.result is written only on the transport of the connection
\* on which its command arrived.  A step of a command task leaves every
\* other transport as it is, and a desktop.result appears on a transport
\* only by a task spawned by that transport's read loop; after a
\* disconnect and a new connect a leftover task never writes on the new
\* connection's transport.
C40_ResultOnOwnTransport ==
  [][\A d \in Conns :
       /\ \A c \in Conns \ {d} : TaskActs(c) => conns'[d] = conns[d]
       /\ (/\ Len(conns'[d].out) > Len(conns[d].out)
           /\ conns'[d].out[Len(conns'[d].out)] = "desktop.result")
            => \E i \in CommandTasks(d) :
                 /\ TaskStep(d, i, "writing", "done")
                 /\ conns'[d].results =
                      Append(conns[d].results, conns[d].cmds[i].result_msg[1])]_vars

\* the client has connected again; the task left over from the first
\* connection then wrote its result, on the first transport, and the new
\* transport carries the handshake frames only
C40_Witness ==
  /\ Len(conns) = 2
  /\ sink = Some(2)
  /\ connected
  /\ cpc.pc = "idle"
  /\ conns[1].out = <<"desktop.result">>
  /\ Len(conns[1].results) = 1
  /\ conns[2].out = <<"connect", "desktop.register">>
  /\ conns[2].results = <<>>

=============================================================================
